---- MODULE Spec2Model ----
(***************************************************************************)
(* A model of the wayfinders build pipeline: the orchestrator build_final  *)
(* of build.py with its stage wrappers, and the collaborators whose        *)
(* results decide the stages' outcomes (specification Spec); and the       *)
(* timeline derivation and frame assembly of render/timeline.py and        *)
(* render/frames.py (specification SpecRender).  SpecLongRun is the frame  *)
(* loop of render/frames.py near the frame number whose name outgrows its  *)
(* padding.  SpecCompositor and SpecCutoutKeys are one Compositor of       *)
(* render/compositor.py under a sequence of render_frame calls, the second *)
(* over two actors whose cutout ids coincide, SpecInstances two Compositor *)
(* instances over one assets directory.  SpecGenerate is repeated runs of  *)
(* generate_episode_assets of gen/generate.py over one episode, and        *)
(* SpecAssetsFirst one episode generated and then composited.              *)
(* SpecTimelineFile is logs/timeline.json with its writers and readers,    *)
(* SpecFrameRuns the frames directory over repeated runs, and SpecQC one   *)
(* run of QCChecker of qc/checker.py over a list of rules.                 *)
(*                                                                         *)
(* Strings are sequences of tokens: a literal is a one-token sequence, an  *)
(* f-string is the concatenation of its parts, so that "starts with",      *)
(* "contains" and "joined by" are computed and not assumed.                *)
(* StageResult.duration_sec is wall-clock time and is left out.            *)
(***************************************************************************)
EXTENDS Integers, Sequences, FiniteSets, TLC

\* ------------------------------------------------------------------ bounds
MaxErrors == 2        \* validator / generator errors in one result
MaxMissing == 1       \* missing asset files / missing audio tracks
MaxTracks == 1        \* audio tracks found by the mixer
MaxQCErrors == 5      \* errors in one QCResult
MaxQCWarnings == 1    \* warnings in one QCResult
MaxGenerated == 1     \* assets generated / cached by one generate run

\* ----------------------------------------------------------------- strings
RECURSIVE Join(_, _)
\* sep.join(parts), parts a sequence of strings
Join(parts, sep) ==
  IF Len(parts) = 0 THEN <<>>
  ELSE IF Len(parts) = 1 THEN parts[1]
  ELSE parts[1] \o <<sep>> \o Join(Tail(parts), sep)

\* f"{name}: {msg}"
Fmt(name, msg) == <<name, ": ">> \o msg

\* phrase in msg
Contains(msg, phrase) == \E i \in 1..Len(msg) : msg[i] = phrase

StartsWith(s, p) == Len(s) >= Len(p) /\ SubSeq(s, 1, Len(p)) = p

IsPrefix(p, s) == StartsWith(s, p)

Min(a, b) == IF a < b THEN a ELSE b

\* the strings an exception of the environment carries
ExcMsgs == { <<"boom">>, <<"Command ffmpeg -i ", "no audio tracks", ".wav failed">> }

NoPath == "None"

\* no TimelineIR derived yet
NoTimeline == [fps |-> 0, shots |-> <<>>]

\* ------------------------------------------------------------------ stages
\* the fixed order with provenance_bundle ahead of qc_check
STAGE_ORDER_provenance_first ==
  << "validate", "plan", "generate", "timeline", "render_frames",
     "audio_mix", "assemble_video", "provenance_bundle", "qc_check" >>

STAGE_ORDER ==
  << "validate", "plan", "generate", "timeline", "render_frames",
     "audio_mix", "assemble_video", "qc_check", "provenance_bundle" >>

NStages == Len(STAGE_ORDER)

VARIABLES
  skip_validation, skip_qc, dry_run,  \* arguments of build_final
  ffmpeg, pillow,                     \* the environment: encoder on PATH, PIL importable
  bgs_present,                        \* every background of the shot list has its file under assets/bgs
  pc, idx,                            \* position of build_final: "start" | "loop" | "done"
  success, stages_completed, output_path, errors, warnings, stage_results,
  audio_mix_path,                     \* the nonlocal of stage_audio_mix
  calls,                              \* collaborators invoked so far, in order
  stage_calls,                        \* stage functions invoked so far, in order
  returned,                           \* what the collaborators returned, in order
  raised,                             \* the exceptions the collaborators raised, in order
  build_logs                          \* the contents written to logs/build.log, in order

\* the timeline derivation and the frame renderer (render/timeline.py, render/frames.py)
VARIABLES
  fps, shotlist,                      \* ep.render.fps and sl.shots, as loaded from the episode
  bg_files,                           \* the background ids with a file under assets/bg
  r_pc,                               \* "none" | "ready" | "rendering" | "done" | "failed"
  irs,                                \* every TimelineIR build_timeline_ir returned, in order
  timeline_json,                      \* every content written to logs/timeline.json, in order
  timeline,                           \* the TimelineIR handed to render_frames_from_timeline
  r_shot, r_frame,                    \* the two loop positions of render_frames_from_timeline
  frame_num, frame_paths,             \* its counter and its result list
  frames_dir,                         \* the files saved under frames/: name and what was drawn
  bg_cache,                           \* Compositor._bg_cache
  r_error                             \* the exception that left the renderer, if any

build_vars ==
  << skip_validation, skip_qc, dry_run, ffmpeg, pillow, bgs_present, pc, idx,
     success, stages_completed, output_path, errors, warnings, stage_results,
     audio_mix_path, calls, stage_calls, returned, raised, build_logs >>

render_vars ==
  << fps, shotlist, bg_files, r_pc, irs, timeline_json, timeline, r_shot, r_frame,
     frame_num, frame_paths, frames_dir, bg_cache, r_error >>

\* one Compositor instance (render/compositor.py) and the calls made on it
VARIABLES
  c_pc,                               \* "none" | "new" | "live" | "failed"
  c_shots,                            \* the ShotIRs render_frame is called with
  cutout_files,                       \* the file stems present under assets/cutouts
  c_bg_cache, c_cutout_cache,         \* Compositor._bg_cache, Compositor._cutout_cache
  c_calls,                            \* every render_frame call with its outcome, in order
  c_reads,                            \* every file opened with Image.open, in order
  c_inst,                             \* which Compositor instance the calls go to: 0 none, 1 or 2
  c_other                             \* the caches of the instance that is not in use

comp_vars ==
  << c_pc, c_shots, cutout_files, c_bg_cache, c_cutout_cache, c_calls, c_reads,
     c_inst, c_other >>

\* asset generation (gen/generate.py) over one episode directory
VARIABLES
  g_pc,                               \* "none" | "idle" | "done": no call is ever in progress between steps
  g_setup,                            \* "ok", or what is missing: "config" | "provider" | "prompts"
  g_assets,                           \* the AssetSpecs discover_assets returns, in order
  g_prompt_fails,                     \* the asset ids whose template does not resolve
  g_provider_fails,                   \* the asset ids for which provider.generate raises
  g_files,                            \* the asset ids whose out_path exists
  g_sidecar,                          \* asset id -> cache_key of its sidecar, <<>> if none is readable
  g_runs                              \* every generate_episode_assets call with its result, in order

gen_vars ==
  << g_pc, g_setup, g_assets, g_prompt_fails, g_provider_fails, g_files, g_sidecar, g_runs >>

\* the timeline file of one episode directory and its readers and writers
\* (render/timeline.py, render/frames.py)
VARIABLES
  i_pc,                               \* "none" | "idle": no call is ever in progress between steps
  i_yaml,                             \* the shots of shotlist.yaml as they stand in the file
  i_file,                             \* logs/timeline.json: whether it exists, and its shots
  i_log                               \* every call with the Timeline IR it handed on, in order

ir_vars == << i_pc, i_yaml, i_file, i_log >>

\* the frames directory of one episode directory over several runs
\* (render/animatic_stub.py, render/frames.py, render/video.py)
VARIABLES
  fr_pc,                              \* "none" | "idle": no call is ever in progress between steps
  fr_dir,                             \* renders/frames: file name -> the run that wrote the file
  fr_log                              \* every run with what it wrote and what the encoder read

fr_vars == << fr_pc, fr_dir, fr_log >>

\* one QCChecker.run call (qc/checker.py)
VARIABLES
  q_pc,                               \* "none" | "start" | "rules" | "done"
  q_episode, q_shotlist,              \* how the two files load: "ok" | "bad", and "absent"
  q_rules,                            \* self.rules: what each rule's check does, in order
  q_idx,                              \* the position of the loop over the rules
  q_result,                           \* the QCResult being filled
  q_checked                           \* the names of the rules whose check was called, in order

qc_vars == << q_pc, q_episode, q_shotlist, q_rules, q_idx, q_result, q_checked >>

vars == << build_vars, render_vars, comp_vars, gen_vars, ir_vars, fr_vars, qc_vars >>

\* what a step of build_final leaves alone
not_build_vars == << render_vars, comp_vars, gen_vars, ir_vars, fr_vars, qc_vars >>

\* what a step of the timeline derivation or the frame loop leaves alone
not_render_vars == << build_vars, comp_vars, gen_vars, ir_vars, fr_vars, qc_vars >>

\* what a step of the Compositor leaves alone
not_comp_vars == << build_vars, render_vars, gen_vars, ir_vars, fr_vars, qc_vars >>

\* what a step of the asset generation leaves alone
not_gen_vars == << build_vars, render_vars, comp_vars, ir_vars, fr_vars, qc_vars >>

\* what a reader or writer of the timeline file leaves alone
not_ir_vars == << build_vars, render_vars, comp_vars, gen_vars, fr_vars, qc_vars >>

\* what a run over the frames directory leaves alone
not_fr_vars == << build_vars, render_vars, comp_vars, gen_vars, ir_vars, qc_vars >>

\* what a step of QCChecker.run leaves alone
not_qc_vars == << build_vars, render_vars, comp_vars, gen_vars, ir_vars, fr_vars >>

\* QCChecker.run is not part of the behaviour
QcNone == /\ q_pc = "none" /\ q_episode = "ok" /\ q_shotlist = "ok" /\ q_rules = <<>>
          /\ q_idx = 0 /\ q_result = <<>> /\ q_checked = <<>>

\* the frames directory is not part of the behaviour
FrNone == fr_pc = "none" /\ fr_dir = <<>> /\ fr_log = <<>>

NoFile == [exists |-> FALSE, shots |-> <<>>]

\* the timeline file is not part of the behaviour
IrNone == i_pc = "none" /\ i_yaml = <<>> /\ i_file = NoFile /\ i_log = <<>>

\* generate_episode_assets is not part of the behaviour
GenNone ==
  /\ g_pc = "none" /\ g_setup = "ok" /\ g_assets = <<>>
  /\ g_prompt_fails = {} /\ g_provider_fails = {}
  /\ g_files = {} /\ g_sidecar = <<>> /\ g_runs = <<>>

\* the instance that is not in use, before it is constructed
NoOther == [made |-> FALSE, bg_cache |-> <<>>, cutout_cache |-> <<>>]

\* no Compositor has been constructed
CompNone ==
  /\ c_pc = "none" /\ c_shots = <<>> /\ cutout_files = {}
  /\ c_bg_cache = <<>> /\ c_cutout_cache = <<>>
  /\ c_calls = <<>> /\ c_reads = <<>>
  /\ c_inst = 0 /\ c_other = NoOther

args == << skip_validation, skip_qc, dry_run, ffmpeg, pillow, bgs_present >>

\* the (name, enabled) list of build_final
stages ==
  [ i \in 1..NStages |->
      [ name |-> STAGE_ORDER[i],
        enabled |-> IF STAGE_ORDER[i] = "validate" THEN ~skip_validation
                    ELSE IF STAGE_ORDER[i] = "qc_check" THEN ~skip_qc
                    ELSE TRUE ] ]

StageResult(name, ok, msg) == [ name |-> name, success |-> ok, message |-> msg ]

\* what a stage function does: it returns (success, msg) or raises, and on the
\* way appends warnings, invokes collaborators and sets output_path / audio_mix_path
Returns(ok, msg) == [ raised |-> FALSE, success |-> ok, msg |-> msg ]
Raises(msg) == [ raised |-> TRUE, success |-> FALSE, msg |-> msg ]

Effect(r, warns, called) ==
  [ r |-> r, warns |-> warns, calls |-> called, out |-> NoPath, amp |-> NoPath,
    rets |-> <<>>, excs |-> <<>> ]

\* the stage function called collaborator fn, which returned res or raised res.exc
WithCall(e, fn, res) ==
  [ e EXCEPT !.rets = @ \o (IF res.raised THEN <<>> ELSE << [ fn |-> fn, res |-> res ] >>),
             !.excs = @ \o (IF res.raised THEN << res.exc >> ELSE <<>>) ]


\* --------------------------------------------------- collaborators' results
\* n strings "<what> 1", "<what> 2", ...
Names(what, n) == [ i \in 1..n |-> <<what, ToString(i)>> ]

\* ValidationResult of validate_episode(allow_missing_assets=True): ok exactly
\* when no error was found; or the call raises (load_canon)
ValidationResults ==
  { [ raised |-> FALSE, exc |-> <<>>, ok |-> (n = 0),
      errors |-> Names("validation error ", n), missing_files |-> Names("missing file ", m) ]
      : n \in 0..MaxErrors, m \in 0..MaxMissing }
  \cup
  { [ raised |-> TRUE, exc |-> x, ok |-> FALSE, errors |-> <<>>, missing_files |-> <<>> ]
      : x \in ExcMsgs }

\* build_plan returns a payload or raises (load_model)
PlanResults ==
  { [ raised |-> FALSE, exc |-> <<>> ] } \cup { [ raised |-> TRUE, exc |-> x ] : x \in ExcMsgs }

\* GenerationResult of generate_episode_assets: errors is a list of (asset id, message)
GenerationResults ==
  { [ raised |-> FALSE, exc |-> <<>>, generated |-> Names("asset ", g),
      skipped |-> Names("cached ", k),
      errors |-> [ i \in 1..n |-> << <<"asset ", ToString(i)>>, <<"generation failed">> >> ] ]
      : g \in 0..MaxGenerated, k \in 0..MaxGenerated, n \in 0..MaxErrors }
  \cup
  { [ raised |-> TRUE, exc |-> x, generated |-> <<>>, skipped |-> <<>>, errors |-> <<>> ]
      : x \in ExcMsgs }

\* write_timeline returns the path it wrote or raises
TimelineResults ==
  { [ raised |-> FALSE, exc |-> <<>>, out |-> "logs/timeline.json" ] }
  \cup { [ raised |-> TRUE, exc |-> x, out |-> NoPath ] : x \in ExcMsgs }

\* what mix_episode_audio meets on disk: the shot list (absent, unreadable or
\* loaded), the audio tracks found and missing, and the encoder run's outcome
\* (<<>> for exit status 0, else the exception's string)
AudioInputs ==
  { [ shotlist |-> "absent", exc |-> <<>>, tracks |-> 0, missing |-> 0, run |-> <<>> ] }
  \cup
  { [ shotlist |-> "unreadable", exc |-> x, tracks |-> 0, missing |-> 0, run |-> <<>> ]
      : x \in ExcMsgs }
  \cup
  { [ shotlist |-> "loaded", exc |-> <<>>, tracks |-> t, missing |-> m, run |-> r ]
      : t \in 0..MaxTracks, m \in 0..MaxMissing, r \in {<<>>} \cup ExcMsgs }

MixResult(ok, out, missing, msg) ==
  [ raised |-> FALSE, exc |-> <<>>, success |-> ok, output_path |-> out,
    tracks_missing |-> missing, message |-> msg ]

\* AudioMixer.mix
AudioMixer_mix(encoder, in) ==
  LET missing == Names("missing track ", in.missing) IN
  IF ~encoder THEN MixResult(FALSE, NoPath, <<>>, <<"ffmpeg not available">>)
  ELSE IF in.tracks = 0
    THEN MixResult(TRUE, NoPath, missing, <<"no audio tracks", " available">>)
  ELSE IF in.run = <<>>
    THEN MixResult(TRUE, "renders/audio_mix.wav", missing,
                   <<"mixed ", ToString(in.tracks), " tracks">>)
  ELSE MixResult(FALSE, NoPath, missing, in.run)

\* mix_episode_audio
mix_episode_audio(encoder, in) ==
  IF in.shotlist = "absent"
    THEN MixResult(FALSE, NoPath, <<>>, <<"shotlist.yaml not found at ", "shotlist.yaml">>)
  ELSE IF in.shotlist = "unreadable"
    THEN [ raised |-> TRUE, exc |-> in.exc, success |-> FALSE, output_path |-> NoPath,
           tracks_missing |-> <<>>, message |-> <<>> ]
  ELSE AudioMixer_mix(encoder, in)

\* what build_animatic_from_placeholders meets: <<>> when the timeline, the
\* frames and the encoder run all work, else the exception's string
AnimaticInputs == {<<>>} \cup ExcMsgs

\* build_animatic_from_placeholders: a shot whose background file is absent is
\* drawn over a plain grey image (stand_in)
build_animatic_from_placeholders(imaging, encoder, bgs, in) ==
  IF ~imaging
    THEN [ raised |-> TRUE, exc |-> <<"Pillow required. Install: uv pip install -e '.[placeholders]'">>,
           out |-> NoPath, stand_in |-> FALSE ]
  ELSE IF in # <<>> THEN [ raised |-> TRUE, exc |-> in, out |-> NoPath, stand_in |-> ~bgs ]
  ELSE IF encoder
    THEN [ raised |-> FALSE, exc |-> <<>>, out |-> "renders/animatic.mp4", stand_in |-> ~bgs ]
  ELSE [ raised |-> FALSE, exc |-> <<>>, out |-> "renders/animatic.NO_FFMPEG.txt",
         stand_in |-> ~bgs ]

\* QCResult of QCChecker.run: passed exactly when no rule reported an error
QCResult(n, w) ==
  [ raised |-> FALSE, exc |-> <<>>, passed |-> (n = 0),
    errors |-> Names("qc error ", n), warnings |-> Names("qc warning ", w) ]

\* what stage_qc_check meets: the checker's result, and the step that raises, if
\* any: the checker itself, or reading the episode again and writing the reports
QCInputs ==
  { [ qc |-> QCResult(n, w), raises |-> "none", exc |-> <<>> ]
      : n \in 0..MaxQCErrors, w \in 0..MaxQCWarnings }
  \cup
  { [ qc |-> QCResult(n, 0), raises |-> at, exc |-> x ]
      : n \in {0, 1}, at \in {"run", "report"}, x \in ExcMsgs }

\* create_provenance_bundle returns the bundle's path or raises
BundleResults ==
  { [ raised |-> FALSE, exc |-> <<>>, out |-> "renders/provenance_bundle.zip" ] }
  \cup { [ raised |-> TRUE, exc |-> x, out |-> NoPath ] : x \in ExcMsgs }


\* --------------------------------------------------------- stage functions
\* stage_validate that ignores res.ok
stage_validate_ignores_ok(res) ==
  WithCall(
    Effect(IF res.raised THEN Raises(res.exc)
           ELSE Returns(TRUE, <<"valid (", ToString(Len(res.missing_files)), " missing assets)">>),
           <<>>, <<"validate_episode">>),
    "validate_episode", res)

stage_validate(res) ==
  WithCall(
    Effect(IF res.raised THEN Raises(res.exc)
           ELSE IF ~res.ok THEN Returns(FALSE, Join(res.errors, "; "))
           ELSE Returns(TRUE, <<"valid (", ToString(Len(res.missing_files)), " missing assets)">>),
           <<>>, <<"validate_episode">>),
    "validate_episode", res)

stage_plan(res) ==
  WithCall(
    Effect(IF res.raised THEN Raises(res.exc) ELSE Returns(TRUE, <<"plan written">>),
           <<>>, <<"build_plan">>),
    "build_plan", res)

stage_generate(res) ==
  WithCall(
    Effect(IF res.raised THEN Raises(res.exc)
           ELSE IF Len(res.errors) > 0
             THEN Returns(FALSE,
                    Join([ i \in 1..Len(res.errors) |->
                             res.errors[i][1] \o <<": ">> \o res.errors[i][2] ],
                         "; "))
           ELSE Returns(TRUE, << ToString(Len(res.generated)), " generated, ",
                                 ToString(Len(res.skipped)), " cached" >>),
           <<>>, <<"generate_episode_assets">>),
    "generate_episode_assets", res)

stage_timeline(res) ==
  WithCall(
    Effect(IF res.raised THEN Raises(res.exc)
           ELSE Returns(TRUE, <<"timeline written to ", res.out>>),
           <<>>, <<"write_timeline">>),
    "write_timeline", res)

\* stage_render_frames that reports the missing imaging library as a failure
stage_render_frames_fails(imaging) ==
  IF ~imaging
    THEN Effect(Returns(FALSE, <<"Pillow not available">>), <<>>, <<>>)
  ELSE Effect(Returns(TRUE, <<"compositor not implemented, skipping">>), <<>>, <<>>)

stage_render_frames(imaging) ==
  IF ~imaging
    THEN Effect(Returns(TRUE, <<"skipped (Pillow not available)">>),
                << Fmt("render_frames", <<"Pillow not available, skipping">>) >>, <<>>)
  ELSE Effect(Returns(TRUE, <<"compositor not implemented, skipping">>), <<>>, <<>>)

\* every failure of the mixer taken for the no-audio-tracks case
is_no_audio_tracks_any(message) == TRUE

\* "no audio tracks" in mix_result.message
is_no_audio_tracks(message) == Contains(message, "no audio tracks")

\* the missing-assets warning without its guard
missing_assets_warning_unguarded(tracks_missing) ==
  << Fmt("audio_mix", << ToString(Len(tracks_missing)), " missing audio assets" >>) >>

\* the warning of stage_audio_mix for the tracks a successful mix missed
missing_assets_warning(tracks_missing) ==
  IF Len(tracks_missing) > 0
    THEN << Fmt("audio_mix", << ToString(Len(tracks_missing)), " missing audio assets" >>) >>
    ELSE <<>>

stage_audio_mix(encoder, in) ==
  IF ~encoder
    THEN Effect(Returns(TRUE, <<"skipped (ffmpeg not available)">>),
                << Fmt("audio_mix", <<"ffmpeg not available, skipping">>) >>,
                <<"ffmpeg_exists">>)
  ELSE
    LET mix_result == mix_episode_audio(encoder, in)
        called == <<"ffmpeg_exists", "mix_episode_audio">>
    IN
    WithCall(
      IF mix_result.raised THEN Effect(Raises(mix_result.exc), <<>>, called)
      ELSE IF ~mix_result.success
        THEN IF is_no_audio_tracks(mix_result.message)
               THEN Effect(Returns(TRUE, mix_result.message),
                           << Fmt("audio_mix", mix_result.message) >>, called)
             ELSE Effect(Returns(FALSE, mix_result.message), <<>>, called)
      ELSE [ Effect(Returns(TRUE, mix_result.message),
                    missing_assets_warning(mix_result.tracks_missing), called)
             EXCEPT !.amp = mix_result.output_path ],
      "mix_episode_audio", mix_result)

\* stage_assemble_video that takes the absent encoder for an error
stage_assemble_video_needs_encoder(imaging, encoder, bgs, in) ==
  IF ~encoder
    THEN Effect(Returns(FALSE, <<"ffmpeg not found">>), <<>>, <<"ffmpeg_exists">>)
  ELSE
    LET res == build_animatic_from_placeholders(imaging, encoder, bgs, in)
        called == <<"ffmpeg_exists", "build_animatic_from_placeholders">>
    IN
    WithCall(
      IF res.raised THEN Effect(Returns(FALSE, res.exc), <<>>, called)
      ELSE [ Effect(Returns(TRUE, <<"video written to ", res.out>>), <<>>, called)
             EXCEPT !.out = res.out ],
      "build_animatic_from_placeholders", res)

\* stage_assemble_video that names the video before the assembler has produced it
stage_assemble_video_names_first(imaging, encoder, bgs, in) ==
  IF ~encoder
    THEN Effect(Returns(TRUE, <<"skipped (ffmpeg not available)">>),
                << Fmt("assemble_video", <<"ffmpeg not available, skipping">>) >>,
                <<"ffmpeg_exists">>)
  ELSE
    LET res == build_animatic_from_placeholders(imaging, encoder, bgs, in)
        called == <<"ffmpeg_exists", "build_animatic_from_placeholders">>
    IN
    WithCall(
      IF res.raised THEN [ Effect(Returns(FALSE, res.exc), <<>>, called)
                           EXCEPT !.out = "renders/animatic.mp4" ]
      ELSE [ Effect(Returns(TRUE, <<"video written to ", res.out>>), <<>>, called)
             EXCEPT !.out = res.out ],
      "build_animatic_from_placeholders", res)

stage_assemble_video(imaging, encoder, bgs, in) ==
  IF ~encoder
    THEN Effect(Returns(TRUE, <<"skipped (ffmpeg not available)">>),
                << Fmt("assemble_video", <<"ffmpeg not available, skipping">>) >>,
                <<"ffmpeg_exists">>)
  ELSE
    LET res == build_animatic_from_placeholders(imaging, encoder, bgs, in)
        called == <<"ffmpeg_exists", "build_animatic_from_placeholders">>
    IN
    WithCall(
      IF res.raised THEN Effect(Returns(FALSE, res.exc), <<>>, called)
      ELSE [ Effect(Returns(TRUE, <<"video written to ", res.out>>), <<>>, called)
             EXCEPT !.out = res.out ],
      "build_animatic_from_placeholders", res)

stage_provenance_bundle(res) ==
  WithCall(
    Effect(IF res.raised THEN Returns(FALSE, res.exc)
           ELSE Returns(TRUE, <<"bundle written to ", res.out>>),
           <<>>, <<"create_provenance_bundle">>),
    "create_provenance_bundle", res)

\* a summary that joins every error and never says how many it left out
qc_failed_message_untruncated(qc_errors) == <<"QC failed: ">> \o Join(qc_errors, "; ")

\* f"QC failed: {err_summary}" of stage_qc_check
qc_failed_message(qc_errors) ==
  <<"QC failed: ">>
  \o Join(SubSeq(qc_errors, 1, Min(3, Len(qc_errors))), "; ")
  \o (IF Len(qc_errors) > 3
        THEN <<" (+", ToString(Len(qc_errors) - 3), " more)">>
        ELSE <<>>)

stage_qc_check(in) ==
  LET res == in.qc
      called == <<"QCChecker.run", "generate_qc_report", "generate_cost_report">>
  IN
  IF in.raises = "run"
    THEN WithCall(Effect(Raises(in.exc), <<>>, <<"QCChecker.run">>),
                  "QCChecker.run", [ raised |-> TRUE, exc |-> in.exc ])
  ELSE IF in.raises = "report"
    THEN WithCall(
           WithCall(Effect(Raises(in.exc), <<>>, <<"QCChecker.run", "generate_qc_report">>),
                    "QCChecker.run", res),
           "generate_qc_report", [ raised |-> TRUE, exc |-> in.exc ])
  ELSE
    WithCall(
      IF ~res.passed
        THEN Effect(Returns(FALSE, qc_failed_message(res.errors)), <<>>, called)
      ELSE Effect(Returns(TRUE, <<"QC passed (", ToString(Len(res.warnings)), " warnings)">>),
                  <<>>, called),
      "QCChecker.run", res)

\* ------------------------------------------------------------ orchestrator
\* a log that leaves the errors section out
BuildLog_without_errors(ok, completed, results, warns, errs, out) ==
  [ success |-> ok, stages_completed |-> completed, stage_results |-> results,
    warnings |-> warns, errors |-> <<>>, output_path |-> out ]

\* the text _write_build_log writes, as the fields it prints
BuildLog(ok, completed, results, warns, errs, out) ==
  [ success |-> ok, stages_completed |-> completed, stage_results |-> results,
    warnings |-> warns, errors |-> errs, output_path |-> out ]

\* _run_stage's return value
run_stage_ok(e) == ~e.r.raised /\ e.r.success

\* _run_stage whose except branch records no error string
run_stage_errors_unless_raised(name, e, errs) ==
  IF run_stage_ok(e) \/ e.r.raised THEN errs ELSE Append(errs, Fmt(name, e.r.msg))

\* the error strings after _run_stage(name, func, result)
run_stage_errors(name, e, errs) ==
  IF run_stage_ok(e) THEN errs ELSE Append(errs, Fmt(name, e.r.msg))

\* _run_stage that appends the name before looking at success
run_stage_completed_always(name, e, completed) == Append(completed, name)

\* stages_completed after _run_stage(name, func, result)
run_stage_completed(name, e, completed) ==
  IF run_stage_ok(e) THEN Append(completed, name) ELSE completed

\* _run_stage whose except branch drops the exception's string
run_stage_results_drops_exc(name, e, results) ==
  Append(results,
         StageResult(name, ~e.r.raised /\ e.r.success,
                     IF e.r.raised THEN <<"stage raised">> ELSE e.r.msg))

\* stage_results after _run_stage(name, func, result)
run_stage_results(name, e, results) ==
  Append(results, StageResult(name, run_stage_ok(e), e.r.msg))

\* a loop that does not return on a failed stage
AfterStage_no_return(ok) == "loop"

\* where build_final's loop goes after _run_stage returned ok
AfterStage(ok) == IF ok THEN "loop" ELSE "done"

\* a build that returns without writing its log
write_build_log_skipped(logs, text) == logs

\* _write_build_log: log_path.write_text
write_build_log(logs, text) == Append(logs, text)

\* the renderer is not part of a build_final run (stage_render_frames never calls it)
RenderIdle ==
  /\ fps = 0 /\ shotlist = <<>> /\ bg_files = {} /\ r_pc = "none"
  /\ irs = <<>> /\ timeline_json = <<>> /\ timeline = NoTimeline
  /\ r_shot = 0 /\ r_frame = 0 /\ frame_num = 0 /\ frame_paths = <<>>
  /\ frames_dir = <<>> /\ bg_cache = {} /\ r_error = <<>>

\* neither the timeline derivation nor a frame loop is running; bg_files is left open
RenderQuiet ==
  /\ fps = 0 /\ shotlist = <<>> /\ r_pc = "none"
  /\ irs = <<>> /\ timeline_json = <<>> /\ timeline = NoTimeline
  /\ r_shot = 0 /\ r_frame = 0 /\ frame_num = 0 /\ frame_paths = <<>>
  /\ frames_dir = <<>> /\ bg_cache = {} /\ r_error = <<>>

Init ==
  /\ skip_validation \in BOOLEAN
  /\ skip_qc \in BOOLEAN
  /\ dry_run \in BOOLEAN
  /\ ffmpeg \in BOOLEAN
  /\ pillow \in BOOLEAN
  /\ bgs_present \in BOOLEAN
  /\ pc = "start"
  /\ idx = 0
  /\ success = FALSE
  /\ stages_completed = <<>>
  /\ output_path = NoPath
  /\ errors = <<>>
  /\ warnings = <<>>
  /\ stage_results = <<>>
  /\ audio_mix_path = NoPath
  /\ calls = <<>>
  /\ stage_calls = <<>>
  /\ returned = <<>>
  /\ raised = <<>>
  /\ build_logs = <<>>
  /\ RenderIdle
  /\ CompNone
  /\ GenNone /\ IrNone /\ FrNone /\ QcNone

\* the names of the enabled stages, in order: the dry-run walk's stages_completed
RECURSIVE EnabledFrom(_)
EnabledFrom(i) ==
  IF i > NStages THEN <<>>
  ELSE (IF stages[i].enabled THEN <<stages[i].name>> ELSE <<>>) \o EnabledFrom(i + 1)

\* the dry-run walk's warnings for the disabled stages
RECURSIVE DisabledWarningsFrom(_)
DisabledWarningsFrom(i) ==
  IF i > NStages THEN <<>>
  ELSE (IF stages[i].enabled THEN <<>>
        ELSE << Fmt(stages[i].name, <<"skipped (disabled)">>) >>)
       \o DisabledWarningsFrom(i + 1)

\* a dry run that validates the episode first
dry_run_calls_validates(called) == called \o <<"validate_episode", "ffmpeg_exists">>

\* the collaborators the dry-run branch invokes
dry_run_calls(called) == Append(called, "ffmpeg_exists")

\* a dry-run walk that ignores the enabled flags
dry_run_completed_all == STAGE_ORDER

\* stages_completed after the dry-run walk
dry_run_completed == EnabledFrom(1)

\* build_final(dry_run=True)
DryRun ==
  /\ pc = "start"
  /\ dry_run
  /\ stages_completed' = dry_run_completed
  /\ warnings' = DisabledWarningsFrom(1)
                 \o (IF ~ffmpeg
                       THEN << Fmt("assemble_video", <<"ffmpeg not available, would skip">>) >>
                       ELSE <<>>)
  /\ calls' = dry_run_calls(calls)
  /\ success' = TRUE
  /\ pc' = "done"
  /\ UNCHANGED << args, not_build_vars, idx, output_path, errors, stage_results, audio_mix_path,
                  stage_calls, returned, raised, build_logs >>

\* build_final(dry_run=False) up to its loop over the stages
Begin ==
  /\ pc = "start"
  /\ ~dry_run
  /\ pc' = "loop"
  /\ idx' = 1
  /\ UNCHANGED << args, not_build_vars, success, stages_completed, output_path, errors, warnings,
                  stage_results, audio_mix_path, calls, stage_calls, returned, raised,
                  build_logs >>

AtStage(name) ==
  /\ pc = "loop"
  /\ idx \in 1..NStages
  /\ stages[idx].name = name

\* a loop that says nothing about the stages it skips
skipped_warning_unnamed(stage_name) == <<"skipped (disabled)">>

\* the warning the loop appends for a disabled stage
skipped_warning(stage_name) == Fmt(stage_name, <<"skipped (disabled)">>)

\* one iteration of the loop for a disabled stage
SkipDisabled ==
  /\ pc = "loop"
  /\ idx \in 1..NStages
  /\ ~stages[idx].enabled
  /\ warnings' = Append(warnings, skipped_warning(stages[idx].name))
  /\ idx' = idx + 1
  /\ UNCHANGED << args, not_build_vars, pc, success, stages_completed, output_path, errors,
                  stage_results, audio_mix_path, calls, stage_calls, returned, raised,
                  build_logs >>

\* a loop that stays at the stage it has just run
next_stage_again(i) == i

\* the for loop over stages moves to the next entry of the list
next_stage(i) == i + 1

\* one iteration of the loop for an enabled stage whose function does e
Iterate(name, e) ==
  /\ AtStage(name)
  /\ stages[idx].enabled
  /\ stage_calls' = Append(stage_calls, name)
  /\ calls' = calls \o e.calls
  /\ returned' = returned \o e.rets
  /\ raised' = raised \o [ i \in 1..Len(e.excs) |-> [ stage |-> name, exc |-> e.excs[i] ] ]
  /\ warnings' = warnings \o e.warns
  /\ output_path' = IF e.out # NoPath THEN e.out ELSE output_path
  /\ audio_mix_path' = IF e.amp # NoPath THEN e.amp ELSE audio_mix_path
  /\ stage_results' = run_stage_results(name, e, stage_results)
  /\ stages_completed' = run_stage_completed(name, e, stages_completed)
  /\ errors' = run_stage_errors(name, e, errors)
  /\ pc' = AfterStage(run_stage_ok(e))
  /\ idx' = IF pc' = "loop" THEN next_stage(idx) ELSE idx
  /\ build_logs' = IF pc' = "done"
                     THEN write_build_log(build_logs,
                            BuildLog(success, stages_completed', stage_results',
                                     warnings', errors', output_path'))
                     ELSE build_logs
  /\ UNCHANGED << args, not_build_vars, success >>

RunValidate == \E res \in ValidationResults : Iterate("validate", stage_validate(res))
RunPlan == \E res \in PlanResults : Iterate("plan", stage_plan(res))
RunGenerate == \E res \in GenerationResults : Iterate("generate", stage_generate(res))
RunTimeline == \E res \in TimelineResults : Iterate("timeline", stage_timeline(res))
RunRenderFrames == Iterate("render_frames", stage_render_frames(pillow))
RunAudioMix == \E in \in AudioInputs : Iterate("audio_mix", stage_audio_mix(ffmpeg, in))
RunAssembleVideo ==
  \E in \in AnimaticInputs :
    Iterate("assemble_video", stage_assemble_video(pillow, ffmpeg, bgs_present, in))
RunQCCheck == \E in \in QCInputs : Iterate("qc_check", stage_qc_check(in))
RunProvenanceBundle ==
  \E res \in BundleResults : Iterate("provenance_bundle", stage_provenance_bundle(res))

\* the end of build_final after the loop ran through
Finish ==
  /\ pc = "loop"
  /\ idx = NStages + 1
  /\ success' = TRUE
  /\ build_logs' = write_build_log(build_logs,
                                   BuildLog(TRUE, stages_completed, stage_results,
                                            warnings, errors, output_path))
  /\ pc' = "done"
  /\ UNCHANGED << args, not_build_vars, idx, stages_completed, output_path, errors, warnings,
                  stage_results, audio_mix_path, calls, stage_calls, returned, raised >>

Next ==
  \/ DryRun
  \/ Begin
  \/ SkipDisabled
  \/ RunValidate
  \/ RunPlan
  \/ RunGenerate
  \/ RunTimeline
  \/ RunRenderFrames
  \/ RunAudioMix
  \/ RunAssembleVideo
  \/ RunQCCheck
  \/ RunProvenanceBundle
  \/ Finish

Spec == Init /\ [][Next]_vars


\* ----------------------------------------------------- timeline and frames
(***************************************************************************)
(* Timeline derivation (render/timeline.py) and frame assembly             *)
(* (render/frames.py).  A duration is a whole number of 1/DurDen seconds,  *)
(* so dur_sec * fps is the exact fraction dur * fps / DurDen and the       *)
(* rounding of the product is computed on integers.  A shot carries the    *)
(* fields the frame numbering depends on: id, dur_sec and bg.              *)
(***************************************************************************)
MaxShots == 2         \* shots in one shot list
MaxDur == 6           \* longest shot, in units of 1/DurDen second
DurDen == 4           \* duration units per second
MaxFps == 2           \* largest frames-per-second setting
MaxDerive == 2        \* derivations of the timeline in one behaviour
PadWidth == 6         \* the 06d of the frame file name

\* RenderSettings.fps is an int with no constraint
FpsValues == (0 - 1)..MaxFps

BgIds == {"bg_a", "bg_b"}

\* the assets/bg directory: complete, or with one background missing
BgFileSets == {BgIds, {"bg_a"}}

Shot(k, d, b) == [id |-> ToString(k), dur_sec |-> d, bg |-> b]

ShotLists ==
  UNION { { [k \in 1..n |-> Shot(k, f[k][1], f[k][2])] :
              f \in [1..n -> (1..MaxDur) \X BgIds] } : n \in 0..MaxShots }

Max(a, b) == IF a > b THEN a ELSE b

\* int(round(n / d)) for d > 0: Python rounds to nearest, ties to the even integer
PyRound(n, d) ==
  LET q == n \div d
      r == n % d
  IN  IF 2 * r < d THEN q
      ELSE IF 2 * r > d THEN q + 1
      ELSE IF q % 2 = 0 THEN q ELSE q + 1

\* the frame count without the lower bound
frame_count_unclamped(dur, f) == PyRound(dur * f, DurDen)

\* max(int(round(sh.dur_sec * ep.render.fps)), 1)
frame_count(dur, f) == Max(PyRound(dur * f, DurDen), 1)

ShotIR(sh, f) ==
  [id |-> sh.id, dur_sec |-> sh.dur_sec, frame_count |-> frame_count(sh.dur_sec, f),
   bg |-> sh.bg]

Reverse(q) == [k \in 1..Len(q) |-> q[Len(q) + 1 - k]]

\* the shots taken last first
build_timeline_ir_reversed(f, shots) ==
  [fps |-> f, shots |-> [k \in 1..Len(shots) |-> ShotIR(Reverse(shots)[k], f)]]

\* one ShotIR per shot of sl.shots, appended in the order of the loop
build_timeline_ir(f, shots) ==
  [fps |-> f, shots |-> [k \in 1..Len(shots) |-> ShotIR(shots[k], f)]]

RECURSIVE dump_shots(_)
dump_shots(shots) ==
  IF Len(shots) = 0 THEN <<>>
  ELSE << "{", "id", shots[1].id, "dur_sec", ToString(shots[1].dur_sec),
          "frame_count", ToString(shots[1].frame_count), "bg", shots[1].bg, "}" >>
       \o dump_shots(Tail(shots))

\* json.dumps(ir.model_dump(mode="json"), indent=2): keys in field order, shots a list
model_dump_json(ir) ==
  << "{", "fps", ToString(ir.fps), "shots", "[" >> \o dump_shots(ir.shots) \o << "]", "}" >>

RECURSIVE Digits(_)
\* the decimal digits of n >= 0
Digits(n) == IF n < 10 THEN << ToString(n) >> ELSE Digits(n \div 10) \o << ToString(n % 10) >>

\* f"{n:0{w}d}": zeros on the left up to width w, never a truncation
ZeroPad(n, w) == [k \in 1..Max(w - Len(Digits(n)), 0) |-> "0"] \o Digits(n)

\* f"frame_{frame_num:06d}.png"
FrameName(n) == << "frame_" >> \o ZeroPad(n, PadWidth) \o << ".png" >>

\* a counter that starts again with every shot
next_frame_num_per_shot(n, shot_ends) == IF shot_ends THEN 1 ELSE n + 1

\* frame_num += 1, whatever the position in the two loops
next_frame_num(n, shot_ends) == n + 1

\* f"Missing {asset_type} asset: {asset_id} (expected at {path})", id and path as tokens
MissingAssetMsg(asset_type, asset_id, path) ==
  << "Missing ", asset_type, " asset: " >> \o asset_id \o << " (expected at " >> \o path \o << ")" >>

\* the error of _load_bg: the path is assets_dir / "bg" / f"{bg_id}.png"
MissingAssetError(asset_type, asset_id) ==
  MissingAssetMsg(asset_type, << asset_id >>, << "bg", "/", asset_id, ".png" >>)

RenderInit ==
  /\ skip_validation = FALSE /\ skip_qc = FALSE /\ dry_run = FALSE
  /\ ffmpeg = FALSE /\ bgs_present = FALSE
  /\ pillow \in BOOLEAN
  /\ pc = "none" /\ idx = 0 /\ success = FALSE
  /\ stages_completed = <<>> /\ output_path = NoPath /\ errors = <<>>
  /\ warnings = <<>> /\ stage_results = <<>> /\ audio_mix_path = NoPath
  /\ calls = <<>> /\ stage_calls = <<>> /\ returned = <<>> /\ raised = <<>>
  /\ build_logs = <<>>
  /\ fps \in FpsValues
  /\ shotlist \in ShotLists
  /\ bg_files \in BgFileSets
  /\ CompNone
  /\ GenNone /\ IrNone /\ FrNone /\ QcNone
  /\ r_pc = "ready"
  /\ irs = <<>> /\ timeline_json = <<>> /\ timeline = NoTimeline
  /\ r_shot = 0 /\ r_frame = 0 /\ frame_num = 0 /\ frame_paths = <<>>
  /\ frames_dir = <<>> /\ bg_cache = {} /\ r_error = <<>>

frame_state == << r_shot, r_frame, frame_num, frame_paths, frames_dir, bg_cache, r_error >>

\* build_timeline_ir(ep, sl)
BuildTimelineIR ==
  /\ r_pc = "ready" /\ Len(irs) < MaxDerive
  /\ irs' = Append(irs, build_timeline_ir(fps, shotlist))
  /\ timeline' = build_timeline_ir(fps, shotlist)
  /\ UNCHANGED << not_render_vars, fps, shotlist, bg_files, r_pc, timeline_json, frame_state >>

\* write_timeline(episode_yaml): derives the IR and writes it to logs/timeline.json
WriteTimeline ==
  /\ r_pc = "ready" /\ Len(irs) < MaxDerive
  /\ irs' = Append(irs, build_timeline_ir(fps, shotlist))
  /\ timeline' = build_timeline_ir(fps, shotlist)
  /\ timeline_json' = Append(timeline_json, model_dump_json(build_timeline_ir(fps, shotlist)))
  /\ UNCHANGED << not_render_vars, fps, shotlist, bg_files, r_pc, frame_state >>

\* the next position of "for shot in shots: for frame_in_shot in range(frame_count)"
LoopDone == r_shot > Len(timeline.shots)

\* render_frames_from_timeline entered: Compositor(...) built, frame_num = 1, first shot
StartRender ==
  /\ r_pc = "ready" /\ Len(irs) >= 1
  /\ IF pillow
       THEN /\ r_pc' = "rendering"
            /\ r_shot' = 1 /\ r_frame' = 0 /\ frame_num' = 1
            /\ r_error' = r_error
       ELSE /\ r_pc' = "failed"
            /\ r_error' = << "Pillow required" >>
            /\ UNCHANGED << r_shot, r_frame, frame_num >>
  /\ UNCHANGED << not_render_vars, fps, shotlist, bg_files, irs, timeline_json, timeline,
                  frame_paths, frames_dir, bg_cache >>

\* one pass of the inner loop: render_frame, save, append, count
RenderFrame ==
  /\ r_pc = "rendering" /\ ~LoopDone
  /\ LET shot == timeline.shots[r_shot]
         last == r_frame + 1 >= shot.frame_count
     IN  /\ shot.bg \in bg_cache \/ shot.bg \in bg_files
         /\ bg_cache' = bg_cache \cup {shot.bg}
         /\ frames_dir' = Append(frames_dir,
              [name |-> FrameName(frame_num), shot |-> shot.id, frame_in_shot |-> r_frame])
         /\ frame_paths' = Append(frame_paths, FrameName(frame_num))
         /\ frame_num' = next_frame_num(frame_num, last)
         /\ r_shot' = IF last THEN r_shot + 1 ELSE r_shot
         /\ r_frame' = IF last THEN 0 ELSE r_frame + 1
  /\ UNCHANGED << not_render_vars, fps, shotlist, bg_files, r_pc, irs, timeline_json, timeline,
                  r_error >>

\* the exception is caught and the frames so far are returned
after_raise_returns_partial == "done"

\* no try/except around render_frame: the exception leaves the function
after_raise == "failed"

\* render_frame raises MissingAssetError from _load_bg: nothing catches it
RenderFrameMissing ==
  /\ r_pc = "rendering" /\ ~LoopDone
  /\ LET shot == timeline.shots[r_shot]
     IN  /\ shot.bg \notin bg_cache /\ shot.bg \notin bg_files
         /\ r_error' = MissingAssetError("background", shot.bg)
  /\ r_pc' = after_raise
  /\ UNCHANGED << not_render_vars, fps, shotlist, bg_files, irs, timeline_json, timeline,
                  r_shot, r_frame, frame_num, frame_paths, frames_dir, bg_cache >>

\* both loops exhausted: return frame_paths
ReturnFrames ==
  /\ r_pc = "rendering" /\ LoopDone
  /\ r_pc' = "done"
  /\ UNCHANGED << not_render_vars, fps, shotlist, bg_files, irs, timeline_json, timeline,
                  frame_state >>

RenderNext ==
  \/ BuildTimelineIR
  \/ WriteTimeline
  \/ StartRender
  \/ RenderFrame
  \/ RenderFrameMissing
  \/ ReturnFrames

SpecRender == RenderInit /\ [][RenderNext]_vars

\* ------------------------------------------------------- a long frame run
(***************************************************************************)
(* The same frame loop, observed late in a run over one long shot: the     *)
(* state after frame_num - 1 passes of the inner loop, with frame_paths    *)
(* and frames_dir holding what is appended from the observed point on.     *)
(* Nothing bounds the number of shots, and fps is an unconstrained int, so *)
(* a run reaches any frame number.                                         *)
(***************************************************************************)
MaxLow == 40          \* observed starting points on either side of a power of ten
MaxWindow == 3        \* passes of the loop observed from a starting point

RECURSIVE Pow10(_)
Pow10(k) == IF k = 0 THEN 1 ELSE 10 * Pow10(k - 1)

\* the first frame number that needs more digits than the 06d pads to
FirstWide == Pow10(PadWidth)

WindowStarts == (1..MaxLow) \cup ((FirstWide - MaxLow)..(FirstWide + MaxLow))

\* no build_final run is in progress; pillow is left open
BuildQuiet ==
  /\ skip_validation = FALSE /\ skip_qc = FALSE /\ dry_run = FALSE
  /\ ffmpeg = FALSE /\ bgs_present = FALSE
  /\ pc = "none" /\ idx = 0 /\ success = FALSE
  /\ stages_completed = <<>> /\ output_path = NoPath /\ errors = <<>>
  /\ warnings = <<>> /\ stage_results = <<>> /\ audio_mix_path = NoPath
  /\ calls = <<>> /\ stage_calls = <<>> /\ returned = <<>> /\ raised = <<>>
  /\ build_logs = <<>>

\* no build_final run is in progress
BuildNone ==
  /\ skip_validation = FALSE /\ skip_qc = FALSE /\ dry_run = FALSE
  /\ ffmpeg = FALSE /\ bgs_present = FALSE /\ pillow = TRUE
  /\ pc = "none" /\ idx = 0 /\ success = FALSE
  /\ stages_completed = <<>> /\ output_path = NoPath /\ errors = <<>>
  /\ warnings = <<>> /\ stage_results = <<>> /\ audio_mix_path = NoPath
  /\ calls = <<>> /\ stage_calls = <<>> /\ returned = <<>> /\ raised = <<>>
  /\ build_logs = <<>>

LongRunInit ==
  /\ BuildNone
  /\ CompNone
  /\ GenNone /\ IrNone /\ FrNone /\ QcNone
  /\ fps = 0 /\ shotlist = <<>> /\ irs = <<>> /\ timeline_json = <<>>
  /\ bg_files = BgIds /\ bg_cache = {"bg_a"}
  /\ \E start \in WindowStarts, len \in 1..MaxWindow :
       /\ timeline = [fps |-> 0,
                      shots |-> << [id |-> "1", dur_sec |-> MaxDur,
                                    frame_count |-> start + len - 1, bg |-> "bg_a"] >>]
       /\ frame_num = start
       /\ r_frame = start - 1
  /\ r_shot = 1
  /\ r_pc = "rendering"
  /\ frame_paths = <<>> /\ frames_dir = <<>> /\ r_error = <<>>

LongRunNext ==
  \/ RenderFrame
  \/ ReturnFrames

SpecLongRun == LongRunInit /\ [][LongRunNext]_vars

\* -------------------------------------------------------------- compositor
(***************************************************************************)
(* Compositor.render_frame.  An image is the sequence of the layers drawn  *)
(* into it, each layer [op, src, at]: a background or cutout file, a       *)
(* camera transform with its parameters, a pasted cutout with its          *)
(* position, an overlay text.  Identifiers are token sequences, so that    *)
(* f"{character}_{pose}_{expression}" is a concatenation.  Camera values   *)
(* are integers in hundredths; t and the interpolated values are fractions *)
(* over the denominator of t.  The sine and cosine of the shake are        *)
(* thousandths, rounded.  Actor y and scale, image sizes and resampling    *)
(* are left out.                                                           *)
(***************************************************************************)
MaxRenderCalls == 3   \* render_frame calls on one Compositor instance

NoExc == [asset_type |-> "", asset_id |-> <<>>, msg |-> <<>>]

\* MissingAssetError(asset_type, asset_id, path)
MissingAsset(asset_type, asset_id, path) ==
  [asset_type |-> asset_type, asset_id |-> asset_id,
   msg |-> MissingAssetMsg(asset_type, asset_id, path)]

\* Image.open(bg_path).convert("RGBA")
BgImage(bg_id) == << [op |-> "bg", src |-> << bg_id >>, at |-> <<>>] >>

\* Image.open(cutout_path).convert("RGBA")
CutoutImage(stem) == << [op |-> "cutout", src |-> stem, at |-> <<>>] >>

\* f"{character}_{pose}_{expression}"
cutout_id(actor) == actor.character \o << "_" >> \o actor.pose \o << "_" >> \o actor.expression

\* f"{character}_{pose}"
fallback_id(actor) == actor.character \o << "_" >> \o actor.pose

\* assets_dir / "cutouts" / f"{stem}.png"
cutout_path(stem) == << "cutouts", "/" >> \o stem \o << ".png" >>

\* Compositor._load_bg
load_bg(bg_id, bgc, disk) ==
  IF bg_id \in DOMAIN bgc
    THEN [raised |-> FALSE, exc |-> NoExc, img |-> bgc[bg_id], cache |-> bgc, reads |-> <<>>]
  ELSE IF bg_id \notin disk
    THEN [raised |-> TRUE,
          exc |-> MissingAsset("background", << bg_id >>, << "bg", "/", bg_id, ".png" >>),
          img |-> <<>>, cache |-> bgc, reads |-> <<>>]
  ELSE [raised |-> FALSE, exc |-> NoExc, img |-> BgImage(bg_id),
        cache |-> (bg_id :> BgImage(bg_id)) @@ bgc,
        reads |-> << << "bg", "/", bg_id, ".png" >> >>]

\* a pose-only file is never looked for
load_cutout_no_fallback(actor, cc, disk) ==
  LET id == cutout_id(actor)
  IN  IF id \in DOMAIN cc
        THEN [raised |-> FALSE, exc |-> NoExc, img |-> cc[id], cache |-> cc, reads |-> <<>>]
      ELSE IF id \in disk
        THEN [raised |-> FALSE, exc |-> NoExc, img |-> CutoutImage(id),
              cache |-> (id :> CutoutImage(id)) @@ cc, reads |-> << cutout_path(id) >>]
      ELSE [raised |-> TRUE, exc |-> MissingAsset("cutout", id, cutout_path(id)),
            img |-> <<>>, cache |-> cc, reads |-> <<>>]

\* Compositor._load_cutout
load_cutout(actor, cc, disk) ==
  LET id == cutout_id(actor)
      fb == fallback_id(actor)
  IN  IF id \in DOMAIN cc
        THEN [raised |-> FALSE, exc |-> NoExc, img |-> cc[id], cache |-> cc, reads |-> <<>>]
      ELSE IF id \in disk
        THEN [raised |-> FALSE, exc |-> NoExc, img |-> CutoutImage(id),
              cache |-> (id :> CutoutImage(id)) @@ cc, reads |-> << cutout_path(id) >>]
      ELSE IF fb \in disk
        THEN [raised |-> FALSE, exc |-> NoExc, img |-> CutoutImage(fb),
              cache |-> (id :> CutoutImage(fb)) @@ cc, reads |-> << cutout_path(fb) >>]
      ELSE [raised |-> TRUE, exc |-> MissingAsset("cutout", id, cutout_path(fb)),
            img |-> <<>>, cache |-> cc, reads |-> <<>>]

\* Compositor._resolve_actor_position, the x of it as a fraction << num, den >> in tenths
resolve_actor_x(actor, idx0, total_actors) ==
  IF actor.has_x THEN << actor.x, 10 >>
  ELSE IF total_actors = 1 THEN << 5, 10 >>
  ELSE << 2 * Max(total_actors - 1, 1) + 6 * idx0, 10 * Max(total_actors - 1, 1) >>

\* t as if the shot had one frame more
camera_t_over_total(frame_idx, total_frames) ==
  IF total_frames <= 1 THEN << 0, 1 >> ELSE << frame_idx, total_frames >>

\* t of _apply_camera as a fraction << num, den >>
camera_t(frame_idx, total_frames) ==
  IF total_frames <= 1 THEN << 0, 1 >> ELSE << frame_idx, total_frames - 1 >>

\* a0 + (a1 - a0) * t, as the numerator over the denominator of t
lerp(a0, a1, t) == a0 * t[2] + (a1 - a0) * t[1]

\* 1000 * sin(frame_idx * 0.5) and 1000 * cos(frame_idx * 0.7), frame_idx in 0..3
SinMilli(frame_idx) == << 0, 479, 841, 997 >>[frame_idx + 1]
CosMilli(frame_idx) == << 1000, 765, 170, 0 - 505 >>[frame_idx + 1]

\* the pan, zoom and shake of _apply_camera for one frame
camera_params(camera, frame_idx, total_frames) ==
  LET t == camera_t(frame_idx, total_frames)
      shaking == camera.move = "shake" /\ camera.strength > 0
  IN  [t |-> t,
       pan_x |-> lerp(camera.x0, camera.x1, t),
       pan_y |-> lerp(camera.y0, camera.y1, t),
       zoom |-> lerp(camera.z0, camera.z1, t),
       shake_x |-> IF shaking THEN camera.strength * SinMilli(frame_idx) ELSE 0,
       shake_y |-> IF shaking THEN camera.strength * CosMilli(frame_idx) ELSE 0]

\* Compositor._apply_camera: a new image holding the transformed one
apply_camera(img, camera, frame_idx, total_frames) ==
  LET c == camera_params(camera, frame_idx, total_frames)
  IN  Append(img, [op |-> "camera", src |-> << camera.move >>,
                   at |-> << c.t[1], c.t[2], c.pan_x, c.pan_y, c.zoom, c.shake_x, c.shake_y >>])

RECURSIVE composite_actors(_, _, _, _)
\* the actor loop of render_frame from actor k on: load, place, paste; a raise ends it
composite_actors(actors, k, st, disk) ==
  IF k > Len(actors) THEN st
  ELSE LET l == load_cutout(actors[k], st.cc, disk)
       IN  IF l.raised
             THEN [st EXCEPT !.raised = TRUE, !.exc = l.exc,
                             !.ops = Append(@, "_load_cutout")]
             ELSE composite_actors(actors, k + 1,
                    [st EXCEPT !.canvas = Append(@, [op |-> "cutout", src |-> l.img[1].src,
                                                     at |-> resolve_actor_x(actors[k], k - 1, Len(actors))]),
                               !.cc = l.cache,
                               !.reads = @ \o l.reads,
                               !.ops = @ \o << "_load_cutout", "_composite_cutout" >>],
                    disk)

RECURSIVE apply_overlays(_, _, _)
\* the overlay loop of render_frame: _apply_overlay draws only an overlay with text
apply_overlays(overlays, k, st) ==
  IF k > Len(overlays) THEN st
  ELSE apply_overlays(overlays, k + 1,
         [st EXCEPT !.canvas = IF overlays[k].text # ""
                                 THEN Append(@, [op |-> "text", src |-> << overlays[k].text >>,
                                                 at |-> <<>>])
                                 ELSE @,
                    !.ops = Append(@, "_apply_overlay")])

\* the canvas is the cached background itself whenever no camera move replaces it
shares_bg_uncopied(camera) == camera.move = "none"

\* canvas = bg_img.copy(): the canvas never shares pixels with the cached background
shares_bg(camera) == FALSE

\* the overlays are drawn before the actors
layers_overlays_first(shot, st, disk) ==
  LET o == apply_overlays(shot.overlays, 1, st)
  IN  composite_actors(shot.actors, 1, o, disk)

\* the two loops of render_frame, actors then overlays
layers(shot, st, disk) ==
  LET a == composite_actors(shot.actors, 1, st, disk)
  IN  IF a.raised THEN a ELSE apply_overlays(shot.overlays, 1, a)

\* Compositor.render_frame(shot, frame_in_shot)
render_frame(shot, frame_in_shot, bgc, cc, bg_disk, cutout_disk) ==
  LET b == load_bg(shot.bg, bgc, bg_disk)
  IN  IF b.raised
        THEN [raised |-> TRUE, exc |-> b.exc, frame |-> <<>>, bg_cache |-> bgc,
              cutout_cache |-> cc, reads |-> <<>>, ops |-> << "_load_bg" >>]
      ELSE
        LET moving == shot.camera.move # "none"
            canvas == IF moving
                        THEN apply_camera(b.img, shot.camera, frame_in_shot, shot.frame_count)
                        ELSE b.img
            st0 == [canvas |-> canvas, cc |-> cc, reads |-> b.reads,
                    ops |-> << "_load_bg" >> \o (IF moving THEN << "_apply_camera" >> ELSE <<>>),
                    raised |-> FALSE, exc |-> NoExc]
            st == layers(shot, st0, cutout_disk)
        IN  [raised |-> st.raised, exc |-> st.exc,
             frame |-> IF st.raised THEN <<>> ELSE st.canvas,
             bg_cache |-> IF shares_bg(shot.camera)
                            THEN [b.cache EXCEPT ![shot.bg] = st.canvas]
                            ELSE b.cache,
             cutout_cache |-> st.cc, reads |-> st.reads, ops |-> st.ops]

Actor(c, p, e) == [character |-> c, pose |-> p, expression |-> e, has_x |-> FALSE, x |-> 0]

Charlie == Actor(<< "charlie" >>, << "idle" >>, << "neutral" >>)
Spencer == Actor(<< "spencer" >>, << "run", "_", "loop" >>, << "excited" >>)
SpencerPlaced == [Spencer EXCEPT !.has_x = TRUE, !.x = 3]

\* pose "run" with expression "loop_excited": the cutout id of Spencer
SpencerLoop == Actor(<< "spencer" >>, << "run" >>, << "loop", "_", "excited" >>)

Camera(move, x0, x1, y0, y1, z0, z1, strength) ==
  [move |-> move, x0 |-> x0, x1 |-> x1, y0 |-> y0, y1 |-> y1, z0 |-> z0, z1 |-> z1,
   strength |-> strength]

NoMove == Camera("none", 0, 0, 0, 0, 100, 100, 0)
Pan == Camera("pan", 0, 20, 10, 30, 100, 100, 0)
SlowPush == Camera("slowpush", 0, 0, 0, 0, 100, 150, 0)
Shake == Camera("shake", 5, 5, 7, 7, 100, 100, 2)

Overlay(id, text) == [id |-> id, text |-> text]

CShot(bg, camera, n, actors, overlays) ==
  [bg |-> bg, camera |-> camera, frame_count |-> n, actors |-> actors, overlays |-> overlays]

\* the shots of an episode: still and moving cameras, one and two actors, overlays
EpisodeShots ==
  << CShot("bg_a", NoMove, 2, << Charlie >>, <<>>),
     CShot("bg_a", Pan, 3, << Charlie, SpencerPlaced >>,
           << Overlay("title", "Hello"), Overlay("mark", "") >>),
     CShot("bg_b", Shake, 2, << Spencer >>, <<>>),
     CShot("bg_b", SlowPush, 1, <<>>, << Overlay("title", "Hello") >>) >>

\* two shots whose actors differ in pose and expression and share one cutout id
AmbiguousShots ==
  << CShot("bg_a", NoMove, 1, << Spencer >>, <<>>),
     CShot("bg_a", NoMove, 1, << SpencerLoop >>, <<>>) >>

CutoutStems ==
  { fallback_id(Charlie), fallback_id(Spencer), cutout_id(Spencer), fallback_id(SpencerLoop) }

CompositorInitWith(shots) ==
  /\ BuildQuiet /\ pillow \in BOOLEAN
  /\ RenderQuiet /\ bg_files \in BgFileSets
  /\ GenNone /\ IrNone /\ FrNone /\ QcNone
  /\ c_pc = "new"
  /\ c_shots = shots
  /\ cutout_files \in SUBSET CutoutStems
  /\ c_bg_cache = <<>> /\ c_cutout_cache = <<>>
  /\ c_calls = <<>> /\ c_reads = <<>>
  /\ c_inst = 0 /\ c_other = NoOther

\* caches that belong to the class: a new instance finds what the others loaded
empty_cache_of_class(loaded) == loaded

\* self._bg_cache = {}, self._cutout_cache = {}: a dict of the instance's own
empty_cache(loaded) == <<>>

\* Compositor(assets_dir, resolution): _require_pillow, two empty caches
NewCompositor ==
  /\ c_pc = "new"
  /\ c_pc' = IF pillow THEN "live" ELSE "failed"
  /\ c_inst' = IF pillow THEN 1 ELSE 0
  /\ c_bg_cache' = empty_cache(c_bg_cache)
  /\ c_cutout_cache' = empty_cache(c_cutout_cache)
  /\ UNCHANGED << not_comp_vars, c_shots, cutout_files, c_calls, c_reads, c_other >>

\* a second Compositor(assets_dir, resolution) over the same assets directory;
\* the calls go to it from now on, the first instance stays alive
SecondCompositor ==
  /\ c_pc = "live" /\ ~c_other.made
  /\ c_other' = [made |-> TRUE, bg_cache |-> c_bg_cache, cutout_cache |-> c_cutout_cache]
  /\ c_bg_cache' = empty_cache(c_bg_cache)
  /\ c_cutout_cache' = empty_cache(c_cutout_cache)
  /\ c_inst' = 2
  /\ UNCHANGED << not_comp_vars, c_pc, c_shots, cutout_files, c_calls, c_reads >>

\* the calls go to the other of the two instances from now on
SwitchCompositor ==
  /\ c_pc = "live" /\ c_other.made
  /\ c_other' = [made |-> TRUE, bg_cache |-> c_bg_cache, cutout_cache |-> c_cutout_cache]
  /\ c_bg_cache' = c_other.bg_cache
  /\ c_cutout_cache' = c_other.cutout_cache
  /\ c_inst' = 3 - c_inst
  /\ UNCHANGED << not_comp_vars, c_pc, c_shots, cutout_files, c_calls, c_reads >>

\* compositor.render_frame(shot, frame_in_shot), returning a frame or raising
CallRenderFrame ==
  /\ c_pc = "live" /\ Len(c_calls) < MaxRenderCalls
  /\ \E i \in 1..Len(c_shots) :
       \E j \in 0..(c_shots[i].frame_count - 1) :
         LET r == render_frame(c_shots[i], j, c_bg_cache, c_cutout_cache, bg_files, cutout_files)
         IN  /\ c_bg_cache' = r.bg_cache
             /\ c_cutout_cache' = r.cutout_cache
             /\ c_reads' = c_reads \o r.reads
             /\ c_calls' = Append(c_calls,
                  [inst |-> c_inst, shot |-> i, frame_in_shot |-> j,
                   raised |-> r.raised, exc |-> r.exc,
                   frame |-> r.frame, ops |-> r.ops, reads |-> r.reads,
                   bg_before |-> c_bg_cache, cutouts_before |-> c_cutout_cache,
                   bg_after |-> r.bg_cache, cutouts_after |-> r.cutout_cache])
  /\ UNCHANGED << not_comp_vars, c_pc, c_shots, cutout_files, c_inst, c_other >>

CompositorNext ==
  \/ NewCompositor
  \/ CallRenderFrame

CompositorInit == CompositorInitWith(EpisodeShots)

SpecCompositor == CompositorInit /\ [][CompositorNext]_vars

CutoutKeysInit == CompositorInitWith(AmbiguousShots)

SpecCutoutKeys == CutoutKeysInit /\ [][CompositorNext]_vars

\* two shots over two backgrounds, the second with an actor in front
InstanceShots ==
  << CShot("bg_a", NoMove, 1, <<>>, <<>>),
     CShot("bg_b", NoMove, 1, << Charlie >>, <<>>) >>

InstancesInit == CompositorInitWith(InstanceShots)

InstancesNext ==
  \/ NewCompositor
  \/ CallRenderFrame
  \/ SecondCompositor
  \/ SwitchCompositor

\* two Compositor instances over one assets directory, the calls interleaved
SpecInstances == InstancesInit /\ [][InstancesNext]_vars

\* -------------------------------------------------------- asset generation
(***************************************************************************)
(* generate_episode_assets over one episode directory whose episode,       *)
(* shot list, prompts and provider stay as they are: the discovered        *)
(* assets, the templates that resolve and the requests the provider can    *)
(* serve are fixed, the files and sidecars change from call to call.  A    *)
(* call runs from entry to return in one step.  The cache key is the text  *)
(* that is hashed, not its digest.  The prompt log and gen.jsonl are left  *)
(* out.                                                                    *)
(***************************************************************************)
MaxAssets == 2        \* assets discovered for the episode
MaxRuns == 2          \* generate_episode_assets calls in one behaviour

AssetSpec(type, id, size) == [asset_type |-> type, asset_id |-> id, size |-> size]

\* the assets of the test episode, backgrounds at 1920x1080 and cutouts at 1536x1536
KnownAssets ==
  << AssetSpec("background", "bg_test_forest", "1920x1080"),
     AssetSpec("cutout", "charlie_idle", "1536x1536"),
     AssetSpec("cutout", "spencer_run_loop", "1536x1536") >>

AssetLists == { SubSeq(KnownAssets, 1, n) : n \in 0..MaxAssets }

AssetIds(assets) == { assets[k].asset_id : k \in 1..Len(assets) }

ProviderId == "placeholder"

\* resolved.resolved_text of the asset's template
resolved_text(spec) == << "prompt for ", spec.asset_id >>

\* the key the provider computes for itself: no provider id in it
provider_cache_key(spec) ==
  << spec.asset_type, ":", spec.asset_id, ":", spec.size, ":" >> \o resolved_text(spec)

\* _compute_cache_key: f"{asset_type}:{asset_id}:{width}x{height}:{provider_id}:{resolved_prompt}"
compute_cache_key(spec) ==
  << spec.asset_type, ":", spec.asset_id, ":", spec.size, ":", ProviderId, ":" >>
    \o resolved_text(spec)

\* the sidecar records the key the provider returned with the asset
sidecar_cache_key_of_provider(spec) == provider_cache_key(spec)

\* sidecar_payload["cache_key"] is the key computed before the cache check
sidecar_cache_key(spec) == compute_cache_key(spec)

\* a sidecar left by a run with another prompt or provider
StaleKey == << "stale" >>

\* _read_sidecar_cache_key: None when there is no readable sidecar
read_sidecar_cache_key(sidecar, id) == IF id \in DOMAIN sidecar THEN sidecar[id] ELSE <<>>

\* a changed_only branch that keeps every file that has a readable sidecar
is_cached_any_sidecar(spec, files, sidecar, force, changed_only) ==
  /\ ~force /\ spec.asset_id \in files
  /\ LET existing == read_sidecar_cache_key(sidecar, spec.asset_id)
     IN  \/ existing = compute_cache_key(spec)
         \/ (changed_only /\ existing # <<>>)

\* the asset is taken from the cache: lines 214-224, both branches
is_cached(spec, files, sidecar, force, changed_only) ==
  /\ ~force /\ spec.asset_id \in files
  /\ LET existing == read_sidecar_cache_key(sidecar, spec.asset_id)
     IN  \/ existing = compute_cache_key(spec)
         \/ (changed_only /\ existing = compute_cache_key(spec))

RECURSIVE generate_loop(_, _, _, _, _, _, _)
\* "for spec in assets" from asset k on; st holds the result lists and the directory
generate_loop(assets, k, st, force, changed_only, prompt_fails, provider_fails) ==
  IF k > Len(assets) THEN st
  ELSE
    LET spec == assets[k]
        id == spec.asset_id
        next ==
          IF id \in prompt_fails
            THEN [st EXCEPT !.errors = Append(@, << id, "prompt" >>)]
          ELSE IF is_cached(spec, st.files, st.sidecar, force, changed_only)
            THEN [st EXCEPT !.skipped = Append(@, id)]
          ELSE IF id \in provider_fails
            THEN [st EXCEPT !.errors = Append(@, << id, "provider" >>),
                            !.requests = Append(@, id)]
          ELSE [st EXCEPT !.files = @ \cup {id},
                          !.sidecar = (id :> sidecar_cache_key(spec)) @@ @,
                          !.generated = Append(@, id),
                          !.requests = Append(@, id)]
    IN  generate_loop(assets, k + 1, next, force, changed_only, prompt_fails, provider_fails)

\* generate_episode_assets(episode_yaml, force, changed_only)
generate_episode_assets(setup, assets, files, sidecar, force, changed_only, prompt_fails, provider_fails) ==
  LET st0 == [generated |-> <<>>, skipped |-> <<>>, errors |-> <<>>, requests |-> <<>>,
              files |-> files, sidecar |-> sidecar]
  IN  IF setup # "ok"
        THEN [st0 EXCEPT !.errors = << << setup, "error" >> >>]
        ELSE generate_loop(assets, 1, st0, force, changed_only, prompt_fails, provider_fails)

\* the sidecars an episode directory can hold for the given files
SidecarStates(assets) ==
  UNION { [ids -> { compute_cache_key(assets[k]) : k \in 1..Len(assets) } \cup {StaleKey}] :
            ids \in SUBSET AssetIds(assets) }

GenerateInit ==
  /\ BuildNone /\ RenderIdle /\ CompNone /\ IrNone /\ FrNone /\ QcNone
  /\ g_pc = "idle"
  /\ g_setup \in {"ok", "config", "provider", "prompts"}
  /\ g_assets \in AssetLists
  /\ g_prompt_fails \in SUBSET AssetIds(g_assets)
  /\ g_provider_fails \in SUBSET AssetIds(g_assets)
  /\ g_files \in SUBSET AssetIds(g_assets)
  /\ g_sidecar \in { sc \in SidecarStates(g_assets) :
                       \A id \in DOMAIN sc :
                         \E k \in 1..Len(g_assets) :
                           /\ g_assets[k].asset_id = id
                           /\ sc[id] \in {compute_cache_key(g_assets[k]), StaleKey} }
  /\ g_runs = <<>>

\* one call of generate_episode_assets, with any flags
GenerateRun ==
  /\ g_pc = "idle" /\ Len(g_runs) < MaxRuns
  /\ \E force \in BOOLEAN, changed_only \in BOOLEAN :
       LET r == generate_episode_assets(g_setup, g_assets, g_files, g_sidecar, force,
                                        changed_only, g_prompt_fails, g_provider_fails)
       IN  /\ g_files' = r.files
           /\ g_sidecar' = r.sidecar
           /\ g_runs' = Append(g_runs,
                [force |-> force, changed_only |-> changed_only,
                 generated |-> r.generated, skipped |-> r.skipped, errors |-> r.errors,
                 requests |-> r.requests])
  /\ UNCHANGED << not_gen_vars, g_pc, g_setup, g_assets, g_prompt_fails, g_provider_fails >>

GenerateNext == GenerateRun

SpecGenerate == GenerateInit /\ [][GenerateNext]_vars

\* ------------------------------------------------------------ timeline file
(***************************************************************************)
(* One episode directory with its shotlist.yaml and its logs/timeline.json *)
(* as they are found on disk.  write_timeline derives the file from the    *)
(* shot list; render_episode_frames reads whatever file is there and       *)
(* renders it; render_frames_from_timeline renders a derived Timeline IR.  *)
(* The assets directory is complete.                                       *)
(***************************************************************************)
MaxIrCalls == 2       \* calls on the episode directory in one behaviour

CharlieWave == Actor(<< "charlie" >>, << "wave" >>, << "neutral" >>)

\* the actor lists a file can hold: none, one or two actors, any of them twice
ActorLists ==
  LET pool == { Charlie, CharlieWave, Spencer }
  IN  { <<>> } \cup { << a >> : a \in pool } \cup { << a, b >> : a \in pool, b \in pool }

\* a shot of shotlist.yaml, one second long
YamlShot(actors) ==
  [id |-> "1", dur_sec |-> DurDen, bg |-> "bg_a", camera |-> NoMove, actors |-> actors,
   overlays |-> <<>>]

YamlFiles == { << YamlShot(a) >> : a \in ActorLists }

\* the shots of a timeline.json that parses as JSON
TimelineFiles ==
  { [exists |-> TRUE, shots |-> << CShot("bg_a", NoMove, n, a, <<>>) >>] :
      n \in 0..1, a \in ActorLists }

\* Shot._no_dupe_chars: len(chars) != len(set(chars)) raises
no_dupe_chars(shot) ==
  Cardinality({ shot.actors[k].character : k \in 1..Len(shot.actors) }) = Len(shot.actors)

\* load_model(ShotList, path): the validated shots, or the validation error
load_shotlist(yaml) ==
  IF \A k \in 1..Len(yaml) : no_dupe_chars(yaml[k])
    THEN [raised |-> FALSE, shots |-> yaml]
    ELSE [raised |-> TRUE, shots |-> <<>>]

\* the ShotIR build_timeline_ir appends for one shot of the list
derive_shot(sh, f) ==
  CShot(sh.bg, sh.camera, frame_count(sh.dur_sec, f), sh.actors, sh.overlays)

\* build_timeline_ir(episode_yaml).shots, or the error of loading the shot list
derive_timeline(yaml, f) ==
  LET sl == load_shotlist(yaml)
  IN  IF sl.raised THEN sl
      ELSE [raised |-> FALSE, shots |-> [k \in 1..Len(sl.shots) |-> derive_shot(sl.shots[k], f)]]

\* TimelineIR.model_validate(timeline_data): the constraints of ShotIR's fields
validate_timeline(file) ==
  IF \A k \in 1..Len(file) : file[k].frame_count >= 1
    THEN [raised |-> FALSE, shots |-> file]
    ELSE [raised |-> TRUE, shots |-> <<>>]

\* the cutouts of a complete assets directory
AllCutouts == { fallback_id(a) : a \in { Charlie, CharlieWave, Spencer } }

RECURSIVE frame_loop(_, _, _, _)
\* "for shot in timeline.shots: for frame_in_shot in range(shot.frame_count)"
\* from frame j of shot s on; a raise in render_frame ends it
frame_loop(shots, s, j, st) ==
  IF s > Len(shots) THEN st
  ELSE IF j >= shots[s].frame_count THEN frame_loop(shots, s + 1, 0, st)
  ELSE LET r == render_frame(shots[s], j, st.bgc, st.cc, BgIds, AllCutouts)
       IN  IF r.raised THEN [st EXCEPT !.raised = TRUE]
           ELSE frame_loop(shots, s, j + 1,
                           [st EXCEPT !.bgc = r.bg_cache, !.cc = r.cutout_cache,
                                      !.frames = Append(@, r.frame)])

\* a new Compositor rendering every frame of the timeline
render_timeline(shots) ==
  frame_loop(shots, 1, 0, [bgc |-> <<>>, cc |-> <<>>, frames |-> <<>>, raised |-> FALSE])

IrInit ==
  /\ BuildNone /\ RenderIdle /\ CompNone /\ GenNone /\ FrNone /\ QcNone
  /\ i_pc = "idle"
  /\ i_yaml \in YamlFiles
  /\ i_file \in TimelineFiles \cup { NoFile }
  /\ i_log = <<>>

IrCall(op, source, exc, shots, frames) ==
  [op |-> op, source |-> source, raised |-> exc, shots |-> shots, frames |-> frames]

\* write_timeline(episode_yaml)
WriteTimelineFile ==
  /\ i_pc = "idle" /\ Len(i_log) < MaxIrCalls
  /\ LET d == derive_timeline(i_yaml, MaxFps)
     IN  /\ i_file' = IF d.raised THEN i_file ELSE [exists |-> TRUE, shots |-> d.shots]
         /\ i_log' = Append(i_log, IrCall("write_timeline", "derived", d.raised, d.shots, <<>>))
  /\ UNCHANGED << not_ir_vars, i_pc, i_yaml >>

\* render_episode_frames(episode_yaml)
RenderEpisodeFrames ==
  /\ i_pc = "idle" /\ Len(i_log) < MaxIrCalls
  /\ LET v == IF ~i_file.exists THEN [raised |-> TRUE, shots |-> <<>>]
                                  ELSE validate_timeline(i_file.shots)
         r == render_timeline(v.shots)
     IN  i_log' = Append(i_log,
                    IrCall("render_episode_frames", "loaded", v.raised \/ r.raised, v.shots,
                           IF v.raised \/ r.raised THEN <<>> ELSE r.frames))
  /\ UNCHANGED << not_ir_vars, i_pc, i_yaml, i_file >>

\* render_frames_from_timeline(build_timeline_ir(episode_yaml), assets_dir, output_dir)
RenderFramesFromTimeline ==
  /\ i_pc = "idle" /\ Len(i_log) < MaxIrCalls
  /\ LET d == derive_timeline(i_yaml, MaxFps)
         r == render_timeline(d.shots)
     IN  i_log' = Append(i_log,
                    IrCall("render_frames_from_timeline", "derived", d.raised \/ r.raised,
                           d.shots, IF d.raised \/ r.raised THEN <<>> ELSE r.frames))
  /\ UNCHANGED << not_ir_vars, i_pc, i_yaml, i_file >>

IrNext ==
  \/ WriteTimelineFile
  \/ RenderEpisodeFrames
  \/ RenderFramesFromTimeline

SpecTimelineFile == IrInit /\ [][IrNext]_vars

\* -------------------------------------------------------- frames directory
(***************************************************************************)
(* renders/frames of one episode directory over several runs, the shot     *)
(* list edited between them.  Every run that writes frames numbers them    *)
(* from 1 and saves them over what is there; the encoder is installed and  *)
(* reads frame_%06d.png: the files numbered 1, 2, ... up to the first      *)
(* number that has no file.                                                *)
(***************************************************************************)
MaxFrameRuns == 3     \* runs on the episode directory in one behaviour

\* the shot lists of the runs: one or two shots of one or two seconds, at 1 fps
RerunShotLists ==
  LET durs == { DurDen, 2 * DurDen }
  IN  { << Shot(1, d, "bg_a") >> : d \in durs }
        \cup { << Shot(1, d, "bg_a"), Shot(2, e, "bg_a") >> : d \in durs, e \in durs }

RECURSIVE frame_writes(_, _, _, _)
\* the names the two loops save, from frame j of shot s on, num the next number
frame_writes(shots, s, j, num) ==
  IF s > Len(shots) THEN <<>>
  ELSE IF j >= shots[s].frame_count THEN frame_writes(shots, s + 1, 0, num)
  ELSE << FrameName(num) >> \o frame_writes(shots, s, j + 1, next_frame_num(num, FALSE))

\* frames_dir.mkdir(parents=True, exist_ok=True), then no file is removed
kept_files(dir) == DOMAIN dir

\* the directory after img.save(out) for every name, by the given run
save_all(dir, names, run) ==
  LET written == { names[k] : k \in 1..Len(names) }
  IN  [ n \in kept_files(dir) \cup written |-> IF n \in written THEN run ELSE dir[n] ]

RECURSIVE image_sequence(_, _)
\* the files the encoder reads for "-i frame_%06d.png", from number k on
image_sequence(dir, k) ==
  IF FrameName(k) \in DOMAIN dir
    THEN << [name |-> FrameName(k), run |-> dir[FrameName(k)]] >> \o image_sequence(dir, k + 1)
    ELSE <<>>

FramesInit ==
  /\ BuildNone /\ RenderIdle /\ CompNone /\ GenNone /\ IrNone /\ QcNone
  /\ fr_pc = "idle"
  /\ fr_dir = <<>>
  /\ fr_log = <<>>

FrameRun(op, written, read) ==
  [op |-> op, run |-> Len(fr_log) + 1, written |-> written, read |-> read,
   dir_after |-> DOMAIN fr_dir']

\* build_animatic_from_placeholders(episode_yaml): frames, then frames_to_mp4
AnimaticRun ==
  /\ fr_pc = "idle" /\ Len(fr_log) < MaxFrameRuns
  /\ \E sl \in RerunShotLists :
       LET names == frame_writes(build_timeline_ir(1, sl).shots, 1, 0, 1)
       IN  /\ fr_dir' = save_all(fr_dir, names, Len(fr_log) + 1)
           /\ fr_log' = Append(fr_log,
                               FrameRun("build_animatic_from_placeholders", names,
                                        image_sequence(fr_dir', 1)))
  /\ UNCHANGED << not_fr_vars, fr_pc >>

\* render_episode_frames(episode_yaml) over the timeline of the edited shot list
RenderFramesRun ==
  /\ fr_pc = "idle" /\ Len(fr_log) < MaxFrameRuns
  /\ \E sl \in RerunShotLists :
       LET names == frame_writes(build_timeline_ir(1, sl).shots, 1, 0, 1)
       IN  /\ fr_dir' = save_all(fr_dir, names, Len(fr_log) + 1)
           /\ fr_log' = Append(fr_log, FrameRun("render_episode_frames", names, <<>>))
  /\ UNCHANGED << not_fr_vars, fr_pc >>

\* assemble_video(frames_dir, output_path); NoFramesError on a directory without frames
AssembleVideoRun ==
  /\ fr_pc = "idle" /\ Len(fr_log) < MaxFrameRuns
  /\ fr_dir' = fr_dir
  /\ fr_log' = Append(fr_log,
                      FrameRun("assemble_video", <<>>,
                               IF DOMAIN fr_dir = {} THEN <<>> ELSE image_sequence(fr_dir, 1)))
  /\ UNCHANGED << not_fr_vars, fr_pc >>

FramesNext ==
  \/ AnimaticRun
  \/ RenderFramesRun
  \/ AssembleVideoRun

SpecFrameRuns == FramesInit /\ [][FramesNext]_vars

\* -------------------------------------------------------------- QC checker
(***************************************************************************)
(* One QCChecker.run call over a list of rules.  What a rule's check does  *)
(* is an input: it returns a RuleResult with any passed flag, warnings and *)
(* errors, or it raises.                                                   *)
(***************************************************************************)
MaxRules == 3         \* rules in self.rules

\* the names of the default rules, in the order of _default_rules
RuleNames ==
  << "dialogue_language_check", "runtime_bounds", "asset_coverage",
     "character_consistency", "kids_content", "ip_checklist" >>

RuleResult(rule_name, ok, warns, errs) ==
  [rule_name |-> rule_name, passed |-> ok, warnings |-> warns, errors |-> errs]

\* what rule.check(ctx) does: a RuleResult without rule_name, or an exception
RuleOutcomes ==
  { [raised |-> FALSE, exc |-> <<>>, passed |-> ok, warnings |-> w, errors |-> e] :
      ok \in BOOLEAN, w \in { <<>>, << << "warn1" >> >> },
      e \in { <<>>, << << "error1" >> >> } }
  \cup
  { [raised |-> TRUE, exc |-> x, passed |-> FALSE, warnings |-> <<>>, errors |-> <<>>] :
      x \in { << "boom" >>, <<>> } }

RuleLists == UNION { [1..n -> RuleOutcomes] : n \in 0..Min(MaxRules, Len(RuleNames)) }

\* QCResult.merge that takes over the rule's passed flag
merge_by_flag(result, other) ==
  [result EXCEPT !.rule_results = Append(@, other),
                 !.warnings = @ \o other.warnings,
                 !.errors = @ \o other.errors,
                 !.passed = IF other.passed THEN @ ELSE FALSE]

\* QCResult.merge
merge(result, other) ==
  [result EXCEPT !.rule_results = Append(@, other),
                 !.warnings = @ \o other.warnings,
                 !.errors = @ \o other.errors,
                 !.passed = IF other.errors # <<>> THEN FALSE ELSE @]

\* the except branch of the loop over the rules
rule_raised(result, rule_name, exc) ==
  [result EXCEPT !.errors = Append(@, << rule_name, ": " >> \o exc),
                 !.passed = FALSE]

QcInit ==
  /\ BuildNone /\ RenderIdle /\ CompNone /\ GenNone /\ IrNone /\ FrNone
  /\ q_pc = "start"
  /\ q_episode \in { "ok", "bad" }
  /\ q_shotlist \in { "ok", "bad", "absent" }
  /\ q_rules \in RuleLists
  /\ q_idx = 0
  /\ q_result = [passed |-> TRUE, warnings |-> <<>>, errors |-> <<>>, rule_results |-> <<>>]
  /\ q_checked = <<>>

\* result = QCResult(passed=True); ctx = self._build_context(episode_yaml, result)
BuildContext ==
  /\ q_pc = "start"
  /\ IF q_episode = "bad"
       THEN /\ q_result' = [q_result EXCEPT
                              !.errors = Append(@, << "Failed to load episode: ", "invalid" >>),
                              !.passed = FALSE]
            /\ q_pc' = "done"
            /\ q_idx' = q_idx
       ELSE /\ q_result' = IF q_shotlist = "bad"
                             THEN [q_result EXCEPT
                                     !.warnings = Append(@, << "Failed to load shotlist: ",
                                                              "invalid" >>)]
                             ELSE q_result
            /\ q_pc' = "rules"
            /\ q_idx' = 1
  /\ UNCHANGED << not_qc_vars, q_episode, q_shotlist, q_rules, q_checked >>

\* one iteration of "for rule in self.rules"
CheckRule ==
  /\ q_pc = "rules" /\ q_idx \in 1..Len(q_rules)
  /\ LET o == q_rules[q_idx]
         rule_name == RuleNames[q_idx]
     IN  /\ q_checked' = Append(q_checked, rule_name)
         /\ q_result' = IF o.raised
                          THEN rule_raised(q_result, rule_name, o.exc)
                          ELSE merge(q_result,
                                     RuleResult(rule_name, o.passed, o.warnings, o.errors))
  /\ q_idx' = q_idx + 1
  /\ UNCHANGED << not_qc_vars, q_pc, q_episode, q_shotlist, q_rules >>

\* return result, after the last rule
ReturnResult ==
  /\ q_pc = "rules" /\ q_idx = Len(q_rules) + 1
  /\ q_pc' = "done"
  /\ UNCHANGED << not_qc_vars, q_episode, q_shotlist, q_rules, q_idx, q_result, q_checked >>

QcNext ==
  \/ BuildContext
  \/ CheckRule
  \/ ReturnResult

SpecQC == QcInit /\ [][QcNext]_vars

\* ----------------------------------------------- assets before compositing
(***************************************************************************)
(* The generate stage followed by the frame rendering of the same episode: *)
(* discover_assets reads the shot list, generate_episode_assets fills the  *)
(* assets directory, and the Compositor of render_episode_frames is built  *)
(* over that directory.  An asset id is the token sequence of its file     *)
(* stem; the empty string is the empty sequence.  The shot lists are ones  *)
(* the schema accepts: bg and character are of type str with no minimum    *)
(* length.  build_timeline_ir copies bg and actors of a shot into its      *)
(* ShotIR unchanged, so one sequence stands for the shot list and for the  *)
(* shots of the Timeline IR.                                               *)
(***************************************************************************)
\* an actor whose character is the empty string
Unnamed == Actor(<<>>, << "idle" >>, << "neutral" >>)

\* the shot lists of the episode: shared backgrounds and cutouts, an empty
\* character, an empty bg
GeneratedShotLists ==
  { << CShot("bg_a", NoMove, 1, << Charlie >>, <<>>),
       CShot("bg_a", NoMove, 2, << Charlie, Spencer >>, <<>>) >>,
    << CShot("bg_a", NoMove, 1, << Spencer >>, <<>>),
       CShot("bg_b", NoMove, 1, <<>>, <<>>) >>,
    << CShot("bg_a", NoMove, 1, << Charlie, Unnamed >>, <<>>) >>,
    << CShot("bg_a", NoMove, 1, << Charlie >>, <<>>),
       CShot("", NoMove, 1, <<>>, <<>>) >> }

\* seen_bg_ids, seen_cutout_ids: the ids of one type among the assets found
SeenIds(found, type) ==
  { found[k].asset_id : k \in { n \in 1..Len(found) : found[n].asset_type = type } }

\* cutout_id = f"{char_id}_{pose}"
discover_cutout(actor) == actor.character \o << "_" >> \o actor.pose

RECURSIVE discover_actors(_, _, _)
\* "for actor in shot.get("actors", [])" from actor k on
discover_actors(actors, k, found) ==
  IF k > Len(actors) THEN found
  ELSE
    LET char_id == actors[k].character
        id == discover_cutout(actors[k])
    IN  IF char_id = <<>> \/ id \in SeenIds(found, "cutout")
          THEN discover_actors(actors, k + 1, found)
          ELSE discover_actors(actors, k + 1,
                               Append(found, AssetSpec("cutout", id, "1536x1536")))

RECURSIVE discover_shots(_, _, _)
\* "for shot in shotlist_data.get("shots", [])" from shot i on
discover_shots(shots, i, found) ==
  IF i > Len(shots) THEN found
  ELSE
    LET bg_id == shots[i].bg
        with_bg == IF bg_id # "" /\ << bg_id >> \notin SeenIds(found, "background")
                     THEN Append(found, AssetSpec("background", << bg_id >>, "1920x1080"))
                     ELSE found
    IN  discover_shots(shots, i + 1, discover_actors(shots[i].actors, 1, with_bg))

\* discover_assets(episode_yaml, show_dir) of an episode that has a shotlist.yaml
discover_assets(shots) == discover_shots(shots, 1, <<>>)

\* the stems under assets/bg: out_path of a background is assets/bg/{bg_id}.png
bg_dir(assets, files) ==
  { assets[k].asset_id[1] :
      k \in { n \in 1..Len(assets) :
                assets[n].asset_type = "background" /\ assets[n].asset_id \in files } }

\* the stems under assets/cutouts: out_path of a cutout is assets/cutouts/{cutout_id}.png
cutouts_dir(assets, files) ==
  { assets[k].asset_id :
      k \in { n \in 1..Len(assets) :
                assets[n].asset_type = "cutout" /\ assets[n].asset_id \in files } }

\* the sidecars of the files: written by an earlier run with the same prompts, or with others
FileSidecars(assets, files) ==
  { [id \in files |->
       IF fresh THEN compute_cache_key(assets[CHOOSE k \in 1..Len(assets) : assets[k].asset_id = id])
                ELSE StaleKey] : fresh \in BOOLEAN }

AssetsFirstInit ==
  /\ BuildQuiet /\ pillow = TRUE
  /\ RenderQuiet /\ bg_files = {}
  /\ IrNone /\ FrNone /\ QcNone
  /\ c_pc = "none"
  /\ c_shots \in GeneratedShotLists
  /\ cutout_files = {}
  /\ c_bg_cache = <<>> /\ c_cutout_cache = <<>>
  /\ c_calls = <<>> /\ c_reads = <<>>
  /\ c_inst = 0 /\ c_other = NoOther
  /\ g_pc = "idle"
  /\ g_setup \in {"ok", "config"}
  /\ g_assets = discover_assets(c_shots)
  /\ g_prompt_fails \in { {}, {g_assets[1].asset_id} }
  /\ g_provider_fails \in { {}, {g_assets[Len(g_assets)].asset_id} }
  /\ g_files \in { {}, {g_assets[1].asset_id}, AssetIds(g_assets) }
  /\ g_sidecar \in FileSidecars(g_assets, g_files)
  /\ g_runs = <<>>

\* render_episode_frames after the generate stage: Compositor(assets_dir = ep_dir / "assets")
\* is about to be constructed over what the directory holds now
OpenAssetsDir ==
  /\ g_pc = "idle" /\ c_pc = "none" /\ Len(g_runs) > 0
  /\ g_pc' = "done"
  /\ c_pc' = "new"
  /\ bg_files' = bg_dir(g_assets, g_files)
  /\ cutout_files' = cutouts_dir(g_assets, g_files)
  /\ UNCHANGED << build_vars, ir_vars, fr_vars, qc_vars,
                  fps, shotlist, r_pc, irs, timeline_json, timeline, r_shot, r_frame,
                  frame_num, frame_paths, frames_dir, bg_cache, r_error,
                  c_shots, c_bg_cache, c_cutout_cache, c_calls, c_reads, c_inst, c_other,
                  g_setup, g_assets, g_prompt_fails, g_provider_fails, g_files,
                  g_sidecar, g_runs >>

AssetsFirstNext ==
  \/ GenerateRun
  \/ OpenAssetsDir
  \/ NewCompositor
  \/ CallRenderFrame

\* the generate stage, then the frames of the same episode
SpecAssetsFirst == AssetsFirstInit /\ [][AssetsFirstNext]_vars


\* ------------------------------------------------------------------ claims
InSeq(x, s) == \E i \in 1..Len(s) : s[i] = x

Last(s) == s[Len(s)]

\* the position of a stage in the fixed order
Pos(name) == CHOOSE i \in 1..NStages : STAGE_ORDER[i] = name

\* sub occurs in s as a run of consecutive tokens
ContainsStr(s, sub) ==
  \E i \in 1..(Len(s) - Len(sub) + 1) : SubSeq(s, i, i + Len(sub) - 1) = sub

\* the fixed order restricted to the stages the flags leave enabled
EnabledOrder ==
  SelectSeq(STAGE_ORDER,
            LAMBDA n : ~(n = "validate" /\ skip_validation) /\ ~(n = "qc_check" /\ skip_qc))

\* the results mix_episode_audio returned in this run
MixReturns == { returned[k].res : k \in { j \in 1..Len(returned) : returned[j].fn = "mix_episode_audio" } }

\* C1: in every state of every run, dry or not, stages_completed is a prefix of
\* the fixed order restricted to the enabled stages, and no completed stage is
\* positioned after a stage that failed.
C1_StagePrefix ==
  /\ IsPrefix(stages_completed, EnabledOrder)
  /\ \A i \in 1..Len(stage_results) :
       ~stage_results[i].success =>
         \A j \in 1..Len(stages_completed) :
           Pos(stages_completed[j]) < Pos(stage_results[i].name)

\* a build without validation that completed six stages and failed at qc_check
C1_Witness ==
  /\ pc = "done" /\ ~dry_run /\ skip_validation
  /\ Len(stages_completed) = 6
  /\ Len(stage_results) = 7 /\ ~Last(stage_results).success

\* C2: once a stage has failed (returned failure or raised), no stage function
\* positioned later in the fixed order has been invoked, the failed stage's
\* result is the last one, and build_final has returned with success = FALSE.
C2_FailStops ==
  \A i \in 1..Len(stage_results) :
    ~stage_results[i].success =>
      /\ i = Len(stage_results)
      /\ \A k \in 1..Len(stage_calls) : Pos(stage_calls[k]) <= Pos(stage_results[i].name)
      /\ ~InSeq("provenance_bundle", stage_calls) \/ stage_results[i].name = "provenance_bundle"
      /\ pc = "done"
      /\ ~success

\* the generate stage failed after validate and plan completed
C2_Witness ==
  /\ pc = "done"
  /\ stages_completed = <<"validate", "plan">>
  /\ Len(stage_results) = 3
  /\ Last(stage_results).name = "generate" /\ ~Last(stage_results).success

\* C3: an exception raised by a stage's collaborator leaves a failed StageResult
\* of that stage whose message is the exception's string, as the last result,
\* and build_final has returned its BuildResult (success = FALSE, log written).
C3_ExceptionsCaught ==
  \A i \in 1..Len(raised) :
    /\ Len(stage_results) > 0
    /\ Last(stage_results) = StageResult(raised[i].stage, FALSE, raised[i].exc)
    /\ pc = "done"
    /\ ~success
    /\ Len(build_logs) = 1

\* the timeline writer raised
C3_Witness ==
  /\ Len(raised) = 1 /\ raised[1].stage = "timeline"
  /\ InSeq("write_timeline", calls)
  /\ pc = "done"

\* C4: every invocation of a stage function appends one StageResult of that
\* stage; on failure it appends exactly the error "<stage>: <message>" and
\* leaves stages_completed alone, on success it appends the stage's name to
\* stages_completed and leaves errors alone.
C4_RunStageRecords ==
  [][ Len(stage_calls') = Len(stage_calls) + 1 =>
        LET name == Last(stage_calls')
            sr == Last(stage_results')
        IN
        /\ Len(stage_results') = Len(stage_results) + 1
        /\ SubSeq(stage_results', 1, Len(stage_results)) = stage_results
        /\ sr.name = name
        /\ IF sr.success
             THEN /\ stages_completed' = Append(stages_completed, name)
                  /\ errors' = errors
             ELSE /\ stages_completed' = stages_completed
                  /\ errors' = Append(errors, <<name, ": ">> \o sr.message)
    ]_vars

\* a stage failed after four stages succeeded
C4_Witness ==
  /\ Len(stage_results) = 5 /\ ~Last(stage_results).success
  /\ Len(errors) = 1 /\ Len(stages_completed) = 4

\* C5: when the validator returned ok = FALSE, stages_completed is empty, no
\* other collaborator was invoked, and errors is one entry that starts with
\* "validate: " and contains each of the validator's error strings; under
\* skip_validation the validator is never invoked and no validate error exists.
C5_ValidationBlocks ==
  /\ \A k \in 1..Len(returned) :
       (returned[k].fn = "validate_episode" /\ ~returned[k].res.ok) =>
         /\ ~skip_validation
         /\ stages_completed = <<>>
         /\ calls = <<"validate_episode">>
         /\ stage_calls = <<"validate">>
         /\ Len(errors) = 1
         /\ StartsWith(errors[1], <<"validate", ": ">>)
         /\ \A j \in 1..Len(returned[k].res.errors) :
              ContainsStr(errors[1], returned[k].res.errors[j])
         /\ pc = "done" /\ ~success
  /\ skip_validation =>
       /\ ~InSeq("validate_episode", calls)
       /\ ~InSeq("validate", stage_calls)
       /\ \A j \in 1..Len(errors) : ~StartsWith(errors[j], <<"validate", ": ">>)

\* the validator reported two errors
C5_Witness ==
  /\ Len(returned) = 1 /\ returned[1].fn = "validate_episode"
  /\ ~returned[1].res.ok /\ Len(returned[1].res.errors) = 2
  /\ pc = "done"

\* C6 as stated: a dry run invokes no collaborator at all, records no
\* StageResult and returns success = TRUE.
C6_DryRunNoCollaborator ==
  (dry_run /\ pc = "done") => (calls = <<>> /\ stage_results = <<>> /\ success)

\* C6 amended: a dry run invokes no collaborator other than the encoder presence
\* check, which it invokes once; it invokes no stage function, records no
\* StageResult and returns success = TRUE.
C6_DryRunOnlyEncoderCheck ==
  (dry_run /\ pc = "done") =>
    /\ calls = <<"ffmpeg_exists">>
    /\ stage_calls = <<>>
    /\ stage_results = <<>>
    /\ returned = <<>> /\ raised = <<>>
    /\ success

\* a dry run returned on a machine without the encoder
C6_Witness == dry_run /\ pc = "done" /\ ~ffmpeg /\ Len(warnings) > 0

\* C7: after a dry run stages_completed is the fixed order restricted to the
\* enabled stages, warnings holds "<stage>: skipped (disabled)" for each disabled
\* stage, errors is empty and success is TRUE.
C7_DryRunResult ==
  (dry_run /\ pc = "done") =>
    /\ stages_completed = EnabledOrder
    /\ InSeq("validate", stages_completed) <=> ~skip_validation
    /\ InSeq("qc_check", stages_completed) <=> ~skip_qc
    /\ skip_validation => InSeq(<<"validate", ": ", "skipped (disabled)">>, warnings)
    /\ skip_qc => InSeq(<<"qc_check", ": ", "skipped (disabled)">>, warnings)
    /\ errors = <<>>
    /\ success

\* a dry run with both optional stages disabled
C7_Witness ==
  /\ dry_run /\ pc = "done" /\ skip_validation /\ skip_qc
  /\ Len(stages_completed) = 7

\* C8 as stated: when the mixer's result reports "no audio tracks", audio_mix is
\* completed, a warning starting with "audio_mix: " is recorded, no audio_mix
\* error is recorded and the loop has moved on to assemble_video.
C8_NoTracksWarns ==
  \A mr \in MixReturns :
    Contains(mr.message, "no audio tracks") =>
      /\ InSeq("audio_mix", stages_completed)
      /\ \E w \in 1..Len(warnings) : StartsWith(warnings[w], <<"audio_mix", ": ">>)
      /\ \A j \in 1..Len(errors) : ~StartsWith(errors[j], <<"audio_mix", ": ">>)
      /\ idx > Pos("audio_mix")

\* C9: when the mixer reports failure with a message outside the no-audio-tracks
\* case, the error "audio_mix: <message>" is the one error recorded, audio_mix is
\* not completed, and assemble_video, qc_check and provenance_bundle are never
\* executed.
C9_MixFailureIsHard ==
  \A mr \in MixReturns :
    (~mr.success /\ ~Contains(mr.message, "no audio tracks")) =>
      /\ errors = << <<"audio_mix", ": ">> \o mr.message >>
      /\ ~InSeq("audio_mix", stages_completed)
      /\ ~InSeq("assemble_video", stage_calls)
      /\ ~InSeq("qc_check", stage_calls)
      /\ ~InSeq("provenance_bundle", stage_calls)
      /\ Last(stage_calls) = "audio_mix"
      /\ pc = "done" /\ ~success

\* the encoder run of the mixer failed
C9_Witness ==
  /\ \E mr \in MixReturns : ~mr.success /\ mr.message = <<"boom">>
  /\ pc = "done"

\* C10: when the mixer succeeds, audio_mix is completed; with N > 0 missing
\* tracks exactly one warning "audio_mix: <N> missing audio assets" is recorded,
\* and with none no missing-assets warning is recorded.
C10_MissingTracksWarning ==
  \A mr \in MixReturns :
    mr.success =>
      LET n == Len(mr.tracks_missing)
          about == { w \in 1..Len(warnings) :
                       Last(warnings[w]) = " missing audio assets" }
      IN
      /\ InSeq("audio_mix", stages_completed)
      /\ \A j \in 1..Len(errors) : ~StartsWith(errors[j], <<"audio_mix", ": ">>)
      /\ IF n > 0
           THEN /\ Cardinality(about) = 1
                /\ \A w \in about :
                     warnings[w] = <<"audio_mix", ": ", ToString(n), " missing audio assets">>
           ELSE about = {}

\* a mix of one track that missed another
C10_Witness ==
  \E mr \in MixReturns :
    /\ mr.success /\ Len(mr.tracks_missing) = 1
    /\ mr.output_path # NoPath
    /\ InSeq("audio_mix", stages_completed)


\* the StageResult a stage left, when it was invoked
ResultsOf(name) ==
  { stage_results[i] : i \in { j \in 1..Len(stage_results) : stage_results[j].name = name } }

\* C11: when the encoder is absent and assemble_video has run, the video
\* assembler was not invoked, the warning "assemble_video: ffmpeg not available,
\* skipping" is recorded, assemble_video is completed, output_path is unset and
\* the loop has moved on to qc_check.
C11_EncoderAbsentSkips ==
  (~ffmpeg /\ InSeq("assemble_video", stage_calls)) =>
    /\ ~InSeq("build_animatic_from_placeholders", calls)
    /\ InSeq(<<"assemble_video", ": ", "ffmpeg not available, skipping">>, warnings)
    /\ InSeq("assemble_video", stages_completed)
    /\ \A sr \in ResultsOf("assemble_video") : sr.success
    /\ output_path = NoPath
    /\ idx > Pos("assemble_video")
    /\ (pc = "done" /\ ~skip_qc) => InSeq("qc_check", stage_calls)

\* a finished build on a machine without the encoder that ran qc_check
C11_Witness ==
  /\ ~ffmpeg /\ pc = "done"
  /\ InSeq("assemble_video", stages_completed)
  /\ InSeq("qc_check", stage_calls)

\* C12: whenever render_frames has run it succeeded: it is in stages_completed,
\* no render_frames error exists and the loop has moved on to audio_mix; without
\* the imaging library its message says skipped and the warning
\* "render_frames: Pillow not available, skipping" is recorded.
C12_RenderFramesNeverFails ==
  InSeq("render_frames", stage_calls) =>
    /\ InSeq("render_frames", stages_completed)
    /\ \A sr \in ResultsOf("render_frames") :
         /\ sr.success
         /\ ~pillow => sr.message = <<"skipped (Pillow not available)">>
    /\ \A j \in 1..Len(errors) : ~StartsWith(errors[j], <<"render_frames", ": ">>)
    /\ ~pillow => InSeq(<<"render_frames", ": ", "Pillow not available, skipping">>, warnings)
    /\ idx > Pos("render_frames")
    /\ pc = "done" => InSeq("audio_mix", stage_calls)

\* a finished build without the imaging library that went on to audio_mix
C12_Witness ==
  /\ ~pillow /\ pc = "done"
  /\ InSeq("render_frames", stages_completed)
  /\ InSeq("audio_mix", stage_calls)

\* the results QCChecker.run returned in this run
QCReturns ==
  { returned[k].res : k \in { j \in 1..Len(returned) : returned[j].fn = "QCChecker.run" } }

\* C13: when the checker reported passed = FALSE with n errors and the stage
\* function returned, the qc_check result is a failure whose message is
\* "QC failed: ", the first min(n, 3) errors separated by "; ", and the suffix
\* " (+<n-3> more)" exactly when n > 3; when it reported passed = TRUE the stage
\* succeeds with "QC passed (<number of warnings> warnings)".
C13_QCSummary ==
  \A qc \in QCReturns :
    (\A i \in 1..Len(raised) : raised[i].stage # "qc_check") =>
      \A sr \in ResultsOf("qc_check") :
        LET n == Len(qc.errors)
            k == IF n < 3 THEN n ELSE 3
            m == sr.message
            body == IF n > 3 THEN SubSeq(m, 1, Len(m) - 3) ELSE m
        IN
        IF ~qc.passed
          THEN /\ ~sr.success
               /\ m[1] = "QC failed: "
               /\ (n > 3) <=> (Len(m) >= 3 /\ m[Len(m)] = " more)")
               /\ n > 3 => SubSeq(m, Len(m) - 2, Len(m)) = <<" (+", ToString(n - 3), " more)">>
               /\ \A i \in 1..k : ContainsStr(body, qc.errors[i])
               /\ \A i \in (k + 1)..n : ~ContainsStr(m, qc.errors[i])
               /\ Cardinality({ i \in 1..Len(body) : body[i] = "; " }) = IF k = 0 THEN 0 ELSE k - 1
               /\ Len(body) = 1 + 2 * k + (IF k = 0 THEN 0 ELSE k - 1)
               /\ n = 5 =>
                    m = << "QC failed: ", "qc error ", "1", "; ", "qc error ", "2", "; ",
                           "qc error ", "3", " (+", "2", " more)" >>
          ELSE /\ sr.success
               /\ m = <<"QC passed (", ToString(Len(qc.warnings)), " warnings)">>

\* the checker reported five errors
C13_Witness ==
  /\ \E qc \in QCReturns : ~qc.passed /\ Len(qc.errors) = 5
  /\ ResultsOf("qc_check") # {}
  /\ pc = "done"

\* the position of a stage function's invocation in this run, 0 when not invoked
CallIndex(name) ==
  IF InSeq(name, stage_calls)
    THEN CHOOSE i \in 1..Len(stage_calls) : stage_calls[i] = name
    ELSE 0

\* C14: provenance_bundle is invoked only when qc_check was disabled or was
\* invoked earlier in the run and succeeded, never in a run where qc_check
\* failed; qc_check is invoked only after generate, audio_mix and
\* assemble_video were invoked and completed.
C14_QCGatesProvenance ==
  /\ InSeq("provenance_bundle", stage_calls) =>
       /\ ~dry_run
       /\ \/ skip_qc /\ ~InSeq("qc_check", stage_calls)
          \/ /\ InSeq("qc_check", stages_completed)
             /\ CallIndex("qc_check") < CallIndex("provenance_bundle")
       /\ \A sr \in ResultsOf("qc_check") : sr.success
  /\ InSeq("qc_check", stage_calls) =>
       \A n \in {"generate", "audio_mix", "assemble_video"} :
         /\ InSeq(n, stages_completed)
         /\ CallIndex(n) < CallIndex("qc_check")

\* provenance_bundle ran after a successful qc_check
C14_Witness ==
  /\ InSeq("qc_check", stages_completed)
  /\ InSeq("provenance_bundle", stage_calls)
  /\ ~skip_qc

\* C15: a non-dry-run build writes no log while it runs and exactly one when
\* it ends; that log holds the returned stages_completed, every StageResult,
\* warning and error of the result, and its header is the returned success.
C15_LogWrittenOnceAtEnd ==
  ~dry_run =>
    /\ pc # "done" => build_logs = <<>>
    /\ pc = "done" =>
         /\ Len(build_logs) = 1
         /\ build_logs[1].success = success
         /\ build_logs[1].stage_results = stage_results
         /\ build_logs[1].warnings = warnings
         /\ build_logs[1].errors = errors
         /\ build_logs[1].stages_completed = stages_completed
         /\ success <=> (errors = <<>>)

\* a build that failed at qc_check after warnings were recorded
C15_Witness ==
  /\ ~dry_run /\ pc = "done" /\ ~success
  /\ Len(errors) = 1 /\ Len(warnings) >= 2
  /\ Last(stage_results).name = "qc_check"

\* C16 as stated: every call of build_final that has returned, a dry run
\* included, has written the build log.
C16_LogAlwaysWritten == pc = "done" => Len(build_logs) >= 1

\* C16 amended: every call that is not a dry run has written the build log
\* once when it returns; a dry run returns without writing one.
C16_LogWrittenUnlessDryRun ==
  pc = "done" => Len(build_logs) = IF dry_run THEN 0 ELSE 1

\* a dry run returned with its lists filled
C16_Witness ==
  /\ dry_run /\ pc = "done" /\ success
  /\ Len(stages_completed) >= 7 /\ Len(warnings) >= 1


\* the results build_animatic_from_placeholders returned in this run
AnimaticReturns ==
  { returned[k].res :
      k \in { j \in 1..Len(returned) : returned[j].fn = "build_animatic_from_placeholders" } }

\* C17 as stated: a finished build whose shot list references a background
\* with no file, and that reached the rendering stages, has failed with an
\* error of render_frames or assemble_video, and no frame of it was drawn over
\* a stand-in image.
C17_MissingAssetFailsBuild ==
  (~bgs_present /\ pc = "done" /\ InSeq("assemble_video", stage_calls)) =>
    /\ ~success
    /\ \E j \in 1..Len(errors) :
         \/ StartsWith(errors[j], <<"render_frames", ": ">>)
         \/ StartsWith(errors[j], <<"assemble_video", ": ">>)
    /\ \A a \in AnimaticReturns : ~a.stand_in


Abs(n) == IF n < 0 THEN 0 - n ELSE n

\* r is the integer nearest to n / d, the even one of the two when n / d lies
\* halfway between them
IsRoundOf(r, n, d) ==
  /\ 2 * Abs(n - r * d) <= d
  /\ 2 * Abs(n - r * d) = d => r % 2 = 0

\* the shots of every IR derived so far, each with the shot it was derived from
DerivedShots ==
  { << irs[i].shots[k], shotlist[k] >> :
      i \in 1..Len(irs), k \in 1..Len(shotlist) }

\* C18: every shot of a derived Timeline IR has frame_count equal to the
\* larger of 1 and dur_sec * fps rounded to the nearest integer (ties to the
\* even one), so frame_count is at least 1 also when the product rounds to 0
\* or below.
C18_FrameCount ==
  \A i \in 1..Len(irs) :
    /\ Len(irs[i].shots) = Len(shotlist)
    /\ \A k \in 1..Len(shotlist) :
         LET n == shotlist[k].dur_sec * fps
             fc == irs[i].shots[k].frame_count
         IN  /\ fc >= 1
             /\ \E r \in (0 - Abs(n) - 1)..(Abs(n) + 1) :
                  /\ IsRoundOf(r, n, DurDen)
                  /\ fc = IF r > 1 THEN r ELSE 1

\* an IR was derived whose first shot's product rounds to 0 and whose second
\* shot's product lies halfway between two integers and has more than one frame
C18_Witness ==
  /\ Len(irs) >= 1 /\ Len(shotlist) >= 2 /\ fps > 0
  /\ 2 * shotlist[1].dur_sec * fps < DurDen
  /\ irs[1].shots[1].frame_count = 1
  /\ (2 * shotlist[2].dur_sec * fps) % (2 * DurDen) = DurDen
  /\ irs[1].shots[2].frame_count >= 2


RECURSIVE FramesBefore(_, _)
\* the sum of frame_count over the first i - 1 shots
FramesBefore(shots, i) ==
  IF i <= 1 THEN 0 ELSE FramesBefore(shots, i - 1) + shots[i - 1].frame_count

TotalFrames(shots) == FramesBefore(shots, Len(shots) + 1)

\* the file name of frame number n < 100, digit by digit
NumberedName(n) ==
  << "frame_", "0", "0", "0", "0", ToString(n \div 10), ToString(n % 10), ".png" >>

\* C20: frame j (from 0) of the i-th shot is saved and returned under frame
\* number 1 + (frame counts of the shots before it) + j, the saves and the
\* returned paths follow shot order then frame order, and a run that returns
\* has saved and returned exactly sum(frame_count) frames.
C20_GlobalFrameCounter ==
  r_pc \in {"rendering", "done", "failed"} =>
    /\ Len(frame_paths) = Len(frames_dir)
    /\ Len(frames_dir) <= TotalFrames(timeline.shots)
    /\ \A i \in 1..Len(timeline.shots) :
         \A j \in 0..(timeline.shots[i].frame_count - 1) :
           LET n == 1 + FramesBefore(timeline.shots, i) + j
           IN  n <= Len(frames_dir) =>
                 /\ frames_dir[n].name = NumberedName(n)
                 /\ frames_dir[n].shot = timeline.shots[i].id
                 /\ frames_dir[n].frame_in_shot = j
                 /\ frame_paths[n] = NumberedName(n)
    /\ r_pc = "done" => Len(frame_paths) = TotalFrames(timeline.shots)

\* a run over two shots of at least two frames each has returned
C20_Witness ==
  /\ r_pc = "done"
  /\ Len(timeline.shots) = 2
  /\ timeline.shots[1].frame_count >= 2
  /\ timeline.shots[2].frame_count >= 2
  /\ Len(frame_paths) = timeline.shots[1].frame_count + timeline.shots[2].frame_count


\* the character a token stands for, as a rank: '.' sorts before every digit
CharRank(tok) == IF tok = ".png" THEN 0 - 1 ELSE CHOOSE d \in 0..9 : ToString(d) = tok

\* a < b as strings, for two frame file names (both "frame_" digits ".png")
LexLess(a, b) ==
  \E k \in 2..Min(Len(a), Len(b)) :
    /\ \A h \in 2..(k - 1) : a[h] = b[h]
    /\ CharRank(a[k]) < CharRank(b[k])

\* C21 as stated: of any two frame files written in a run, the one written
\* earlier (earlier in video order) has the lexicographically smaller name.
C21_LexOrderIsVideoOrder ==
  \A i, j \in 1..Len(frame_paths) : i < j => LexLess(frame_paths[i], frame_paths[j])


\* C22: when compositing a frame raises, the frame assembly ends with that
\* exception and returns no list; the frames written are exactly those that
\* precede the failing frame, and from then on nothing more is rendered,
\* written or returned.
C22_FailureAborts ==
  /\ [](r_error # <<>> =>
          /\ r_pc = "failed"
          /\ Len(frame_paths) = Len(frames_dir)
          /\ pillow =>
               /\ Len(frames_dir) = FramesBefore(timeline.shots, r_shot) + r_frame
               /\ \A n \in 1..Len(frames_dir) :
                    \E i \in 1..(r_shot - 1) : frames_dir[n].shot = timeline.shots[i].id)
  /\ [][r_pc = "failed" => UNCHANGED render_vars]_vars

\* the first shot was rendered and written, and the first frame of the second
\* shot raised for its missing background
C22_Witness ==
  /\ r_pc = "failed" /\ r_shot = 2
  /\ Len(frames_dir) >= 2
  /\ StartsWith(r_error, << "Missing ", "background" >>)


\* the first actor of the shot, if any, that has neither of its two cutout files
FirstMissingActor(shot) ==
  { k \in 1..Len(shot.actors) :
      /\ cutout_id(shot.actors[k]) \notin cutout_files
      /\ fallback_id(shot.actors[k]) \notin cutout_files
      /\ \A h \in 1..(k - 1) :
           \/ cutout_id(shot.actors[h]) \in cutout_files
           \/ fallback_id(shot.actors[h]) \in cutout_files }

\* C23 as stated: a render_frame call on a shot whose background has no file raises
\* MissingAssetError of type "background" with the id in its message; on a
\* shot with a background file and an actor that has neither cutout file it
\* raises the "cutout" error for that actor; in both cases no frame comes
\* back and neither cache holds an entry for the missing asset.
C23_MissingAssetRaises ==
  \A n \in 1..Len(c_calls) :
    LET c == c_calls[n]
        shot == c_shots[c.shot]
    IN  /\ shot.bg \notin bg_files =>
             /\ c.raised /\ c.frame = <<>>
             /\ c.exc.asset_type = "background"
             /\ c.exc.asset_id = << shot.bg >>
             /\ ContainsStr(c.exc.msg, << shot.bg >>)
             /\ ContainsStr(c.exc.msg, << "background" >>)
             /\ shot.bg \notin DOMAIN c.bg_after
             /\ c.bg_after = c.bg_before /\ c.cutouts_after = c.cutouts_before
        /\ shot.bg \in bg_files =>
             \A k \in FirstMissingActor(shot) :
               /\ c.raised /\ c.frame = <<>>
               /\ c.exc.asset_type = "cutout"
               /\ c.exc.asset_id = cutout_id(shot.actors[k])
               /\ ContainsStr(c.exc.msg, cutout_id(shot.actors[k]))
               /\ cutout_id(shot.actors[k]) \notin DOMAIN c.cutouts_after
               /\ fallback_id(shot.actors[k]) \notin DOMAIN c.cutouts_after


\* the calls that returned a frame of a shot with a camera move, each with the
\* shot and the parameters of the camera layer of the frame
CameraCalls ==
  { [n |-> c_shots[c_calls[k].shot].frame_count,
     j |-> c_calls[k].frame_in_shot,
     camera |-> c_shots[c_calls[k].shot].camera,
     at |-> c_calls[k].frame[2].at] :
      k \in { h \in 1..Len(c_calls) :
                ~c_calls[h].raised /\ c_shots[c_calls[h].shot].camera.move # "none" } }

\* C24 as stated: for every camera move other than none, t is 0 and pan and
\* zoom are (x0, y0, z0) at the first frame, t is 1 and pan and zoom are
\* (x1, y1, z1) at the last frame of a shot of two frames or more, and t is 0
\* for a shot of one frame.  at = << t num, t den, pan_x, pan_y, zoom,
\* shake_x, shake_y >>, the pan being the interpolated value plus the shake.
C24_EndpointsForEveryMove ==
  \A c \in CameraCalls :
    /\ c.n <= 1 => c.at[1] = 0
    /\ (c.n >= 2 /\ c.j = 0) =>
         /\ c.at[1] = 0
         /\ c.at[3] = c.camera.x0 * c.at[2] /\ c.at[6] = 0
         /\ c.at[4] = c.camera.y0 * c.at[2] /\ c.at[7] = 0
         /\ c.at[5] = c.camera.z0 * c.at[2]
    /\ (c.n >= 2 /\ c.j = c.n - 1) =>
         /\ c.at[1] = c.at[2]
         /\ c.at[3] = c.camera.x1 * c.at[2] /\ c.at[6] = 0
         /\ c.at[4] = c.camera.y1 * c.at[2] /\ c.at[7] = 0
         /\ c.at[5] = c.camera.z1 * c.at[2]

\* C24 amended: t is 0 at the first frame and 1 at the last frame of a shot of
\* two frames or more and 0 for a shot of one frame, with a non-zero
\* denominator throughout; the interpolated pan and zoom are (x0, y0, z0)
\* and (x1, y1, z1) there; a move other than a shake with positive strength
\* adds nothing to them, while such a shake adds strength * 0.01 * sin(0.5 j)
\* to pan_x and strength * 0.01 * cos(0.7 j) to pan_y, which at the first
\* frame leaves pan_x at x0 and moves pan_y off y0.
C24_CameraEndpoints ==
  \A c \in CameraCalls :
    /\ c.at[2] >= 1
    /\ c.n <= 1 => c.at[1] = 0
    /\ (c.n >= 2 /\ c.j = 0) =>
         /\ c.at[1] = 0
         /\ c.at[3] = c.camera.x0 * c.at[2]
         /\ c.at[4] = c.camera.y0 * c.at[2]
         /\ c.at[5] = c.camera.z0 * c.at[2]
    /\ (c.n >= 2 /\ c.j = c.n - 1) =>
         /\ c.at[1] = c.at[2]
         /\ c.at[3] = c.camera.x1 * c.at[2]
         /\ c.at[4] = c.camera.y1 * c.at[2]
         /\ c.at[5] = c.camera.z1 * c.at[2]
    /\ ~(c.camera.move = "shake" /\ c.camera.strength > 0) =>
         c.at[6] = 0 /\ c.at[7] = 0
    /\ (c.camera.move = "shake" /\ c.camera.strength > 0 /\ c.j = 0) =>
         c.at[6] = 0 /\ c.at[7] = 1000 * c.camera.strength

\* the last frame of a three-frame pan, the first frame of a shake and the
\* only frame of a one-frame push were rendered
C24_Witness ==
  /\ \E c \in CameraCalls : c.camera.move = "pan" /\ c.n = 3 /\ c.j = 2
  /\ \E c \in CameraCalls : c.camera.move = "shake" /\ c.j = 0
  /\ \E c \in CameraCalls : c.camera.move = "slowpush" /\ c.n = 1


\* C25 as stated: on one Compositor with the asset files unchanged, any two
\* render_frame calls with the same shot and frame_in_shot have the same
\* outcome (the same frame, or the same error), whatever was rendered in
\* between, and every cached image is the image its file was loaded as.
C25_RenderFrameRepeatable ==
  /\ \A m, n \in 1..Len(c_calls) :
       (c_calls[m].shot = c_calls[n].shot
          /\ c_calls[m].frame_in_shot = c_calls[n].frame_in_shot) =>
         /\ c_calls[m].raised = c_calls[n].raised
         /\ c_calls[m].exc = c_calls[n].exc
         /\ c_calls[m].frame = c_calls[n].frame
  /\ \A b \in DOMAIN c_bg_cache : c_bg_cache[b] = BgImage(b)
  /\ \A k \in DOMAIN c_cutout_cache :
       \E stem \in cutout_files : c_cutout_cache[k] = CutoutImage(stem)


\* the discovered asset ids, in discovery order
DiscoveredIds == [k \in 1..Len(g_assets) |-> g_assets[k].asset_id]

\* C26 as stated: after a call that reported no errors, the next call without
\* force generates nothing and skips every discovered asset, and the next
\* call with force generates every discovered asset and skips none.
C26_CachedThenForced ==
  \A n \in 1..(Len(g_runs) - 1) :
    g_runs[n].errors = <<>> =>
      IF g_runs[n + 1].force
        THEN g_runs[n + 1].generated = DiscoveredIds /\ g_runs[n + 1].skipped = <<>>
        ELSE g_runs[n + 1].generated = <<>> /\ g_runs[n + 1].skipped = DiscoveredIds

\* C26 amended: after a call that reported no errors, the next call without
\* force generates nothing, asks the provider for nothing and skips every
\* discovered asset; the next call with force skips none and asks the
\* provider for every discovered asset, in order, generating those the
\* provider serves and reporting the others as errors.
C26_CachedThenRequested ==
  \A n \in 1..(Len(g_runs) - 1) :
    g_runs[n].errors = <<>> =>
      IF g_runs[n + 1].force
        THEN /\ g_runs[n + 1].skipped = <<>>
             /\ g_runs[n + 1].requests = DiscoveredIds
             /\ g_runs[n + 1].generated =
                  SelectSeq(DiscoveredIds, LAMBDA id : id \notin g_provider_fails)
             /\ Len(g_runs[n + 1].errors) + Len(g_runs[n + 1].generated) = Len(g_assets)
        ELSE /\ g_runs[n + 1].generated = <<>>
             /\ g_runs[n + 1].requests = <<>>
             /\ g_runs[n + 1].skipped = DiscoveredIds

\* a first call generated both assets without errors and the next call,
\* without force, skipped both
C26_Witness ==
  /\ Len(g_runs) = 2 /\ Len(g_assets) = 2
  /\ g_runs[1].generated = DiscoveredIds /\ g_runs[1].errors = <<>>
  /\ ~g_runs[2].force /\ g_runs[2].skipped = DiscoveredIds


\* C27 as stated: after any run, stages_completed is a prefix of the nine
\* stage names in their fixed order.
C27_PrefixOfAllStages ==
  pc = "done" => IsPrefix(stages_completed, STAGE_ORDER)

\* C27 amended: after any run, stages_completed is a prefix of the fixed
\* order with the disabled stages left out; it is the whole of that order
\* when the run succeeded, and otherwise it ends just before the stage that
\* failed, whose result is the last one.
C27_PrefixOfEnabledStages ==
  pc = "done" =>
    /\ IsPrefix(stages_completed, EnabledOrder)
    /\ success => stages_completed = EnabledOrder
    /\ ~success =>
         /\ Len(stages_completed) < Len(EnabledOrder)
         /\ stage_results # <<>>
         /\ Last(stage_results).name = EnabledOrder[Len(stages_completed) + 1]
         /\ ~Last(stage_results).success

\* a run without validation ended at a failing audio_mix, with plan first
\* among the completed stages
C27_Witness ==
  /\ pc = "done" /\ skip_validation /\ ~dry_run /\ ~success
  /\ Len(stages_completed) = 4 /\ stages_completed[1] = "plan"
  /\ Last(stage_results).name = "audio_mix"


\* the disabled stages, and the number of times a warning was recorded
NamesOf(seq) == { seq[i] : i \in 1..Len(seq) }
DisabledStages == { n \in NamesOf(STAGE_ORDER) : ~InSeq(n, EnabledOrder) }
Occurrences(x, seq) == Cardinality({ i \in 1..Len(seq) : seq[i] = x })
StageRan(n) ==
  \/ InSeq(n, stage_calls)
  \/ \E i \in 1..Len(stage_results) : stage_results[i].name = n

\* C28 as stated: after every run that is not a dry run, each disabled stage
\* has its warning "<stage>: skipped (disabled)" in the result, its function
\* was not invoked and it has no StageResult.
C28_EveryDisabledStageWarned ==
  (~dry_run /\ pc = "done") =>
    \A n \in DisabledStages :
      /\ InSeq(skipped_warning(n), warnings)
      /\ ~StageRan(n)

\* C28 amended: in a run that is not a dry run a disabled stage is never
\* invoked and has no StageResult at any moment; once the run has returned,
\* its warning is in the result, once, exactly when every enabled stage before
\* it completed; and the stages invoked are the enabled ones in the fixed
\* order, up to the first failure.
C28_DisabledStageSkipped ==
  ~dry_run =>
    /\ \A n \in DisabledStages : ~StageRan(n)
    /\ IsPrefix(stage_calls, EnabledOrder)
    /\ pc = "done" =>
         /\ \A n \in DisabledStages :
              /\ Occurrences(skipped_warning(n), warnings) <= 1
              /\ InSeq(skipped_warning(n), warnings) <=>
                   \A m \in NamesOf(EnabledOrder) :
                     Pos(m) < Pos(n) => InSeq(m, stages_completed)
         /\ success => stage_calls = EnabledOrder

\* a run with both flags set recorded the warning for validate, failed at a
\* later stage and returned without reaching qc_check
C28_Witness ==
  /\ ~dry_run /\ pc = "done" /\ skip_validation /\ skip_qc /\ ~success
  /\ InSeq(skipped_warning("validate"), warnings)
  /\ ~InSeq(skipped_warning("qc_check"), warnings)
  /\ Len(stage_calls) >= 2


\* some stage of this run has failed or raised
SomeStageFailed == \E i \in 1..Len(stage_results) : ~stage_results[i].success

\* C29: within one run each stage function is invoked at most once and the
\* invocations follow the fixed order; every invocation has returned its
\* StageResult before the next one starts; and once a stage has failed or
\* raised, no stage function is invoked any more.
C29_SinglePass ==
  /\ [](/\ \A n \in NamesOf(STAGE_ORDER) : Occurrences(n, stage_calls) <= 1
        /\ \A i, j \in 1..Len(stage_calls) :
             i < j => Pos(stage_calls[i]) < Pos(stage_calls[j])
        /\ Len(stage_results) = Len(stage_calls)
        /\ \A i \in 1..Len(stage_calls) : stage_results[i].name = stage_calls[i])
  /\ [][SomeStageFailed => stage_calls' = stage_calls /\ stage_results' = stage_results]_vars

\* a run invoked six stage functions, the sixth of which failed, and returned
C29_Witness ==
  /\ pc = "done" /\ ~dry_run /\ ~skip_validation
  /\ Len(stage_calls) = 6
  /\ ~stage_results[6].success
  /\ \A i \in 1..5 : stage_results[i].success


\* the file the actor's cutout is to be read from: the expression-specific
\* one when it exists, otherwise the pose-only one
ResolvedStem(actor) ==
  IF cutout_id(actor) \in cutout_files THEN cutout_id(actor) ELSE fallback_id(actor)

HasCutoutFile(actor) ==
  cutout_id(actor) \in cutout_files \/ fallback_id(actor) \in cutout_files

CutoutLayers(frame) == SelectSeq(frame, LAMBDA l : l.op = "cutout")

\* C30 as stated: in a render_frame call on a shot whose background has a
\* file, every actor is drawn from its expression-specific file when that
\* exists and otherwise from its pose-only file, the image is in the cache
\* under the expression-specific key, and the call raises the "cutout"
\* MissingAssetError exactly when some actor has neither file.
C30_FallbackInOneStep ==
  \A n \in 1..Len(c_calls) :
    LET c == c_calls[n]
        shot == c_shots[c.shot]
    IN  shot.bg \in bg_files =>
          /\ c.raised <=> FirstMissingActor(shot) # {}
          /\ c.raised => c.exc.asset_type = "cutout"
          /\ \A k \in 1..Len(shot.actors) :
               (\A h \in 1..k : HasCutoutFile(shot.actors[h])) =>
                 /\ cutout_id(shot.actors[k]) \in DOMAIN c.cutouts_after
                 /\ c.cutouts_after[cutout_id(shot.actors[k])]
                      = CutoutImage(ResolvedStem(shot.actors[k]))
                 /\ ~c.raised =>
                      CutoutLayers(c.frame)[k].src = ResolvedStem(shot.actors[k])


\* the calls made on instance m, and the one made on it before call n, 0 if none
CallsOf(m) == { n \in 1..Len(c_calls) : c_calls[n].inst = m }
PrevCallOf(n) ==
  LET earlier == { h \in CallsOf(c_calls[n].inst) : h < n }
  IN  IF earlier = {} THEN 0 ELSE CHOOSE h \in earlier : \A g \in earlier : g <= h

\* the keys a call added to a cache
NewKeys(before, after) == DOMAIN after \ DOMAIN before

BgPath(bg_id) == << "bg", "/", bg_id, ".png" >>

\* C31: on each Compositor instance a call finds the caches as the instance's
\* previous call left them, empty at its first call whatever the other
\* instance has loaded; a call reads one file for each key it adds to a cache
\* and none for a key that is there already, so each background id and each
\* cutout key is read at most once on an instance; entries stay as they are;
\* and a load that raised leaves no entry for its key.
C31_LoadedOncePerInstance ==
  /\ \A n \in 1..Len(c_calls) :
       LET c == c_calls[n]
           shot == c_shots[c.shot]
           p == PrevCallOf(n)
       IN  /\ c.bg_before = IF p = 0 THEN <<>> ELSE c_calls[p].bg_after
           /\ c.cutouts_before = IF p = 0 THEN <<>> ELSE c_calls[p].cutouts_after
           /\ \A b \in DOMAIN c.bg_before :
                b \in DOMAIN c.bg_after /\ c.bg_after[b] = c.bg_before[b]
           /\ \A k \in DOMAIN c.cutouts_before :
                k \in DOMAIN c.cutouts_after /\ c.cutouts_after[k] = c.cutouts_before[k]
           /\ Len(c.reads) = Cardinality(NewKeys(c.bg_before, c.bg_after))
                               + Cardinality(NewKeys(c.cutouts_before, c.cutouts_after))
           /\ InSeq(BgPath(shot.bg), c.reads) <=> shot.bg \in NewKeys(c.bg_before, c.bg_after)
           /\ NewKeys(c.bg_before, c.bg_after) \subseteq { shot.bg }
           /\ NewKeys(c.cutouts_before, c.cutouts_after)
                \subseteq { cutout_id(shot.actors[k]) : k \in 1..Len(shot.actors) }
           /\ (c.raised /\ c.exc.asset_type = "background") =>
                /\ shot.bg \notin DOMAIN c.bg_after
                /\ c.reads = <<>>
           /\ (c.raised /\ c.exc.asset_type = "cutout") =>
                c.exc.asset_id \notin DOMAIN c.cutouts_after
  /\ \A m \in 1..2 : \A b \in BgIds :
       Cardinality({ n \in CallsOf(m) : InSeq(BgPath(b), c_calls[n].reads) }) <= 1
  /\ \A m \in 1..2 : \A k \in DOMAIN c_cutout_cache \cup DOMAIN c_other.cutout_cache :
       Cardinality({ n \in CallsOf(m) :
                       k \in NewKeys(c_calls[n].cutouts_before, c_calls[n].cutouts_after) }) <= 1

\* the second instance read from disk a background and a cutout that the
\* first instance holds in its caches, and the first instance was then
\* served from its caches without a read
C31_Witness ==
  /\ Len(c_calls) = 3
  /\ c_calls[1].inst = 1 /\ c_calls[2].inst = 2 /\ c_calls[3].inst = 1
  /\ \A n \in 1..3 : c_calls[n].shot = 2 /\ ~c_calls[n].raised
  /\ Len(c_calls[1].reads) = 2 /\ c_calls[2].reads = c_calls[1].reads
  /\ c_calls[3].reads = <<>>


\* the helper calls of one render_frame call that returns a frame, in order
RECURSIVE ActorOps(_)
ActorOps(n) == IF n = 0 THEN <<>> ELSE << "_load_cutout", "_composite_cutout" >> \o ActorOps(n - 1)

LayerOps(shot) ==
  << "_load_bg" >>
    \o (IF shot.camera.move # "none" THEN << "_apply_camera" >> ELSE <<>>)
    \o ActorOps(Len(shot.actors))
    \o [ i \in 1..Len(shot.overlays) |-> "_apply_overlay" ]

\* the overlays that draw something
TextOverlays(shot) == SelectSeq(shot.overlays, LAMBDA o : o.text # "")

\* C32: every frame render_frame returns is the background, then the camera
\* transform exactly when camera.move is not none, then one cutout for each
\* actor in list order at that actor's position, then the text of each
\* overlay in list order, each layer over the ones before it; the helpers
\* are called in that order, and with camera.move none _apply_camera is not
\* called and the frame's first layer is the background as loaded.
C32_LayerOrder ==
  \A n \in 1..Len(c_calls) :
    LET c == c_calls[n]
        shot == c_shots[c.shot]
        moving == shot.camera.move # "none"
        off == IF moving THEN 2 ELSE 1
        na == Len(shot.actors)
        texts == TextOverlays(shot)
    IN  ~c.raised =>
          /\ c.ops = LayerOps(shot)
          /\ Len(c.frame) = off + na + Len(texts)
          /\ c.frame[1] = BgImage(shot.bg)[1]
          /\ moving => c.frame[2].op = "camera" /\ c.frame[2].src = << shot.camera.move >>
          /\ ~moving => \A i \in 1..Len(c.frame) : c.frame[i].op # "camera"
          /\ \A k \in 1..na :
               /\ c.frame[off + k].op = "cutout"
               /\ c.frame[off + k].src = c.cutouts_after[cutout_id(shot.actors[k])][1].src
               /\ c.frame[off + k].at = resolve_actor_x(shot.actors[k], k - 1, na)
          /\ \A i \in 1..Len(texts) :
               c.frame[off + na + i] = [op |-> "text", src |-> << texts[i].text >>, at |-> <<>>]

\* one Compositor returned a frame of the still one-actor shot and a frame of
\* the panning shot with two actors and two overlays, one of them without text
C32_Witness ==
  /\ \E n \in 1..Len(c_calls) : c_calls[n].shot = 1 /\ ~c_calls[n].raised
  /\ \E n \in 1..Len(c_calls) :
       /\ c_calls[n].shot = 2 /\ ~c_calls[n].raised
       /\ Len(c_calls[n].frame) = 5


\* what a call with the given flags would return and leave behind, made now
CallNow(force, changed_only) ==
  generate_episode_assets(g_setup, g_assets, g_files, g_sidecar, force, changed_only,
                          g_prompt_fails, g_provider_fails)

\* C33: in every state of the asset files and sidecars, and for either value
\* of force, a call with changed_only set returns the same generated, skipped
\* and errors lists, makes the same provider requests and leaves the same
\* files and sidecars as the call without it.
C33_ChangedOnlyNoOp ==
  \A force \in BOOLEAN :
    LET with == CallNow(force, TRUE)
        without == CallNow(force, FALSE)
    IN  /\ with.generated = without.generated
        /\ with.skipped = without.skipped
        /\ with.errors = without.errors
        /\ with.requests = without.requests
        /\ with.files = without.files
        /\ with.sidecar = without.sidecar

\* a call with changed_only and without force met a file whose sidecar holds
\* another key, asked the provider for it, and next to it skipped an asset
\* whose sidecar holds the current key
C33_Witness ==
  /\ Len(g_runs) >= 1 /\ Len(g_assets) = 2
  /\ g_runs[1].changed_only /\ ~g_runs[1].force
  /\ \E k \in 1..2 :
       LET id == g_assets[k].asset_id
       IN  /\ id \in g_files /\ id \in DOMAIN g_sidecar /\ g_sidecar[id] = StaleKey
           /\ InSeq(id, g_runs[1].requests)
           /\ id \in g_provider_fails
  /\ Len(g_runs[1].skipped) = 1


\* the frame loops that got a Timeline IR and rendered it
Consumed ==
  { n \in 1..Len(i_log) : i_log[n].op # "write_timeline" /\ i_log[n].frames # <<>> }

\* C34 as stated: in every Timeline IR a frame loop rendered, whether it was
\* derived from the shot list or loaded from timeline.json, no shot has two
\* actors with the same character id.
C34_NoDuplicateCharacters ==
  \A n \in Consumed :
    \A k \in 1..Len(i_log[n].shots) : no_dupe_chars(i_log[n].shots[k])

\* every Timeline IR derived from the shot list is free of duplicate characters
DerivedHaveNoDuplicates ==
  \A n \in 1..Len(i_log) :
    (i_log[n].source = "derived" /\ ~i_log[n].raised) =>
      \A k \in 1..Len(i_log[n].shots) : no_dupe_chars(i_log[n].shots[k])


\* C35: in the result of every run that is not a dry run, success, an empty
\* errors list and the presence of every enabled stage in stages_completed
\* go together; errors has at most one entry; and stage_results has one entry
\* for each completed stage, all successful, followed when the run failed by
\* one more entry, the only failed one.
C35_ResultShape ==
  (~dry_run /\ pc = "done") =>
    /\ success <=> errors = <<>>
    /\ success <=> \A n \in NamesOf(EnabledOrder) : InSeq(n, stages_completed)
    /\ Len(errors) <= 1
    /\ Len(stage_results) = Len(stages_completed) + (IF success THEN 0 ELSE 1)
    /\ \A i \in 1..Len(stages_completed) :
         stage_results[i].success /\ stage_results[i].name = stages_completed[i]
    /\ ~success => ~Last(stage_results).success

\* a run failed at its third stage because the stage function raised
C35_Witness ==
  /\ ~dry_run /\ pc = "done" /\ ~success
  /\ Len(stages_completed) = 2 /\ Len(stage_results) = 3 /\ Len(errors) = 1
  /\ Len(raised) = 1


\* C36: at every moment of a run, output_path is set only if the encoder is
\* present, the video assembler was invoked and assemble_video succeeded and
\* is in stages_completed, and then it is the path of the assembled video;
\* it is unset throughout a dry run and as long as assemble_video has not run.
C36_OutputPathFromAssembler ==
  /\ output_path # NoPath =>
       /\ ffmpeg
       /\ InSeq("build_animatic_from_placeholders", calls)
       /\ InSeq("assemble_video", stages_completed)
       /\ \A sr \in ResultsOf("assemble_video") :
            sr.success /\ sr.message = << "video written to ", output_path >>
       /\ output_path = "renders/animatic.mp4"
  /\ dry_run => output_path = NoPath
  /\ ~InSeq("assemble_video", stage_calls) => output_path = NoPath

\* a run assembled the video and then failed at qc_check: output_path stays set
C36_Witness ==
  /\ pc = "done" /\ ~success /\ output_path # NoPath
  /\ Last(stage_results).name = "qc_check"


\* the last run up to the n-th that wrote frames, 0 if there is none
LastWriter(n) ==
  LET ws == { h \in 1..n : fr_log[h].written # <<>> }
  IN  IF ws = {} THEN 0 ELSE CHOOSE h \in ws : \A g \in ws : g <= h

\* C37 as stated: when a run that wrote frames is over, the frames directory
\* holds exactly the files that run wrote; and what the encoder reads is
\* exactly the frames of the last run that wrote any, in their order, none of
\* them a file of an earlier run.
C37_OnlyThisRunsFrames ==
  \A n \in 1..Len(fr_log) :
    LET e == fr_log[n]
        w == LastWriter(n)
    IN  /\ e.written # <<>> => e.dir_after = { e.written[k] : k \in 1..Len(e.written) }
        /\ e.read # <<>> =>
             /\ w # 0
             /\ [ k \in 1..Len(e.read) |-> e.read[k].name ] = fr_log[w].written
             /\ \A k \in 1..Len(e.read) : e.read[k].run = w


\* C38: in the QCResult that QCChecker.run returns, passed is FALSE exactly
\* when errors is not empty; when the episode loads, the check of every rule
\* was called, in order, whatever the earlier rules did, and each rule that
\* raised left the error "<rule name>: <exception>"; when the episode does
\* not load, no rule was called and the result has one error.
C38_PassedIffNoErrors ==
  q_pc = "done" =>
    /\ ~q_result.passed <=> q_result.errors # <<>>
    /\ q_episode = "ok" =>
         /\ q_checked = SubSeq(RuleNames, 1, Len(q_rules))
         /\ \A k \in 1..Len(q_rules) :
              q_rules[k].raised =>
                InSeq(<< RuleNames[k], ": " >> \o q_rules[k].exc, q_result.errors)
    /\ q_episode = "bad" =>
         /\ q_checked = <<>>
         /\ Len(q_result.errors) = 1

\* a run over three rules returned: the first raised, the second set its
\* passed flag to FALSE without any error, the third passed with a warning
C38_Witness ==
  /\ q_pc = "done" /\ Len(q_rules) = 3 /\ Len(q_checked) = 3
  /\ q_rules[1].raised
  /\ ~q_rules[2].raised /\ ~q_rules[2].passed /\ q_rules[2].errors = <<>>
  /\ ~q_rules[3].raised /\ q_rules[3].passed /\ q_rules[3].warnings # <<>>
  /\ Len(q_result.errors) = 1 /\ ~q_result.passed

\* the last generate_episode_assets call returned a result with errors == []
LastRunClean == Len(g_runs) > 0 /\ g_runs[Len(g_runs)].errors = <<>>

\* the files _load_bg and _load_cutout look for are in the episode's assets directory
AssetsExist(shot) ==
  /\ shot.bg \in bg_dir(g_assets, g_files)
  /\ \A k \in 1..Len(shot.actors) :
       \/ cutout_id(shot.actors[k]) \in cutouts_dir(g_assets, g_files)
       \/ fallback_id(shot.actors[k]) \in cutouts_dir(g_assets, g_files)

\* no render_frame call of the episode raised MissingAssetError
NoMissingAssetError ==
  \A k \in 1..Len(c_calls) :
    ~(c_calls[k].raised /\ c_calls[k].exc.asset_type \in {"background", "cutout"})

\* C39: after a generate stage that reported no errors, every shot of the
\* shot list has its background file and, for every actor, a cutout file the
\* Compositor's lookup reaches, and no render_frame call on a shot of the
\* episode raises MissingAssetError.
C39_AssetsBeforeCompositing ==
  LastRunClean =>
    /\ \A i \in 1..Len(c_shots) : AssetsExist(c_shots[i])
    /\ NoMissingAssetError

\* every bg and every actor's character of the shot list is a non-empty string
AllNamed ==
  \A i \in 1..Len(c_shots) :
    /\ c_shots[i].bg # ""
    /\ \A k \in 1..Len(c_shots[i].actors) : c_shots[i].actors[k].character # <<>>

\* with every bg and character named, the files are there and no call raises
NamedAssetsBeforeCompositing ==
  (LastRunClean /\ AllNamed) =>
    /\ \A i \in 1..Len(c_shots) : AssetsExist(c_shots[i])
    /\ NoMissingAssetError

\* a clean run, then a frame composited from a pose-only cutout file
CleanRunThenFallbackFrame ==
  /\ LastRunClean /\ AllNamed
  /\ \E k \in 1..Len(c_calls) :
       /\ ~c_calls[k].raised
       /\ \E r \in 1..Len(c_calls[k].reads) :
            c_calls[k].reads[r] = cutout_path(fallback_id(Spencer))

====
